---- MODULE Spec2Model ----
(***************************************************************************)
(* A model of the Mirage commit-carrying zkSNARK core of bellman: the      *)
(* prover's ProvingAssignment builder and create_proof, the verifier's     *)
(* verify_proof, the evaluation domain they use, and the KW15 subspace     *)
(* argument.                                                               *)
(*                                                                         *)
(* The pairing engine is the one the repository's tests use (DummyEngine): *)
(* G1, G2 and GT are the scalar field Fr written additively, a group       *)
(* element is its discrete logarithm to the generator 1, and the pairing   *)
(* e(a, b) is the product a * b in Fr.                                     *)
(***************************************************************************)
EXTENDS Naturals, Integers, Sequences, FiniteSets, TLC

(***************************************************************************)
(* The scalar field Fr of the test engine.                                 *)
(***************************************************************************)
\* the order of Fr
FrModulus == 64513
\* the multiplicative generator of Fr
FrGenerator == 5
\* the 2-adicity of Fr: 2^FrS divides FrModulus - 1
FrS == 10

Fr == 0 .. (FrModulus - 1)

FAdd(x, y) == (x + y) % FrModulus
FSub(x, y) == (x + FrModulus - y) % FrModulus
FNeg(x) == (FrModulus - x) % FrModulus
\* x * y mod FrModulus without leaving 32-bit integers
FMul(x, y) == (((x * (y \div 256)) % FrModulus) * 256 + x * (y % 256)) % FrModulus

RECURSIVE FPow(_, _)
FPow(x, e) ==
    IF e = 0 THEN 1
    ELSE IF e % 2 = 0 THEN FPow(FMul(x, x), e \div 2)
    ELSE FMul(x, FPow(FMul(x, x), e \div 2))

\* Field::invert on a non-zero element
FInv(x) == FPow(x, FrModulus - 2)

\* PrimeField::root_of_unity: a primitive 2^FrS-th root of unity
RootOfUnity == FPow(FrGenerator, (FrModulus - 1) \div (2 ^ FrS))

(***************************************************************************)
(* Sequences of field elements.  Rust indices are 0-based: At(s, i) is     *)
(* s[i] of the source.                                                     *)
(***************************************************************************)
At(s, i) == s[i + 1]

\* the sequence with the values of function f on 1 .. Len(f)
Tup(f) == SubSeq(f, 1, Len(f))

RECURSIVE SumSeq(_)
SumSeq(s) == IF s = <<>> THEN 0 ELSE FAdd(Head(s), SumSeq(Tail(s)))

Zeros(n) == Tup([i \in 1 .. n |-> 0])

(***************************************************************************)
(* domain.rs: the evaluation domain.                                       *)
(***************************************************************************)
\* bitreverse(n, l): the l low bits of n in reverse order
RECURSIVE bitreverse(_, _)
bitreverse(n, l) ==
    IF l = 0 THEN 0
    ELSE (n % 2) * (2 ^ (l - 1)) + bitreverse(n \div 2, l - 1)

\* the swap loop of serial_fft: every k < rk is exchanged with rk once
BitReversePermute(a, log_n) ==
    Tup([i \in 1 .. Len(a) |-> a[bitreverse(i - 1, log_n) + 1]])

\* one pass of the butterfly loop of serial_fft for half-width m
ButterflyPass(a, omega, m) ==
    LET n == Len(a)
        w_m == FPow(omega, n \div (2 * m))
    IN  Tup([i \in 1 .. n |->
            LET p == (i - 1) % (2 * m)
                j == p % m
                k == (i - 1) - p
                t == FMul(a[k + j + m + 1], FPow(w_m, j))
            IN  IF p < m THEN FAdd(a[k + j + 1], t)
                         ELSE FSub(a[k + j + 1], t)])

RECURSIVE ButterflyLoop(_, _, _, _)
ButterflyLoop(a, omega, m, rounds) ==
    IF rounds = 0 THEN a
    ELSE ButterflyLoop(ButterflyPass(a, omega, m), omega, 2 * m, rounds - 1)

\* serial_fft with a bug: the butterflies run on the input as it is stored
serial_fft_without_bitreverse(a, omega, log_n) ==
    ButterflyLoop(a, omega, 1, log_n)

serial_fft(a, omega, log_n) ==
    ButterflyLoop(BitReversePermute(a, log_n), omega, 1, log_n)

\* parallel_fft with a bug: the sub-FFTs are copied out one after the other
\* instead of interleaved
parallel_fft_not_interleaved(a, omega, log_n, log_cpus) ==
    LET num_cpus == 2 ^ log_cpus
        log_new_n == log_n - log_cpus
        new_n == 2 ^ log_new_n
        new_omega == FPow(omega, num_cpus)
        \* the shuffle of task j: elt after i outer and s inner steps
        shuffled(j) ==
            LET omega_j == FPow(omega, j)
                omega_step == FPow(omega, j * new_n)
            IN  Tup([i1 \in 1 .. new_n |->
                    SumSeq(Tup([s1 \in 1 .. num_cpus |->
                        LET i == i1 - 1
                            s == s1 - 1
                            idx == (i + s * new_n) % (2 ^ log_n)
                            elt == FMul(FPow(omega_step, i * num_cpus + s),
                                        FPow(omega_j, i))
                        IN  FMul(a[idx + 1], elt)]))])
        tmp == Tup([j1 \in 1 .. num_cpus |->
                   serial_fft(shuffled(j1 - 1), new_omega, log_new_n)])
    IN  Tup([idx1 \in 1 .. Len(a) |->
            tmp[((idx1 - 1) \div new_n) + 1][((idx1 - 1) % new_n) + 1]])

\* parallel_fft: 2^log_cpus sub-FFTs of size 2^(log_n - log_cpus), interleaved
parallel_fft(a, omega, log_n, log_cpus) ==
    LET num_cpus == 2 ^ log_cpus
        log_new_n == log_n - log_cpus
        new_n == 2 ^ log_new_n
        new_omega == FPow(omega, num_cpus)
        \* the shuffle of task j: elt after i outer and s inner steps
        shuffled(j) ==
            LET omega_j == FPow(omega, j)
                omega_step == FPow(omega, j * new_n)
            IN  Tup([i1 \in 1 .. new_n |->
                    SumSeq(Tup([s1 \in 1 .. num_cpus |->
                        LET i == i1 - 1
                            s == s1 - 1
                            idx == (i + s * new_n) % (2 ^ log_n)
                            elt == FMul(FPow(omega_step, i * num_cpus + s),
                                        FPow(omega_j, i))
                        IN  FMul(a[idx + 1], elt)]))])
        tmp == Tup([j1 \in 1 .. num_cpus |->
                   serial_fft(shuffled(j1 - 1), new_omega, log_new_n)])
    IN  Tup([idx1 \in 1 .. Len(a) |->
            tmp[((idx1 - 1) % num_cpus) + 1][((idx1 - 1) \div num_cpus) + 1]])

best_fft(a, log_cpus, omega, log_n) ==
    IF log_n <= log_cpus THEN serial_fft(a, omega, log_n)
    ELSE parallel_fft(a, omega, log_n, log_cpus)


\* EvaluationDomain::from_coeffs: the domain, or the error it returns
\* the while loop of from_coeffs with a bug: a domain of 2^S elements passes
RECURSIVE DomainExpAllowingS(_, _, _)
DomainExpAllowingS(len, m, exp) ==
    IF m < len
    THEN IF exp + 1 > FrS THEN -1 ELSE DomainExpAllowingS(len, 2 * m, exp + 1)
    ELSE exp

RECURSIVE DomainExp(_, _, _)
\* the while loop of from_coeffs from (m, exp): the final exp, or -1 for the
\* PolynomialDegreeTooLarge return
DomainExp(len, m, exp) ==
    IF m < len
    THEN IF exp + 1 >= FrS THEN -1 ELSE DomainExp(len, 2 * m, exp + 1)
    ELSE exp

RECURSIVE SquareTimes(_, _)
SquareTimes(x, n) == IF n = 0 THEN x ELSE SquareTimes(FMul(x, x), n - 1)

from_coeffs(coeffs) ==
    LET exp == DomainExp(Len(coeffs), 1, 0)
        m == 2 ^ exp
        omega == SquareTimes(RootOfUnity, FrS - exp)
    IN  IF exp = -1
        THEN [err |-> "PolynomialDegreeTooLarge"]
        ELSE [err |-> "none",
              coeffs |-> Tup([i \in 1 .. m |-> IF i <= Len(coeffs) THEN coeffs[i] ELSE 0]),
              exp |-> exp,
              omega |-> omega,
              omegainv |-> FInv(omega),
              geninv |-> FInv(FrGenerator),
              minv |-> FInv(m % FrModulus)]

\* every coefficient multiplied by the same scalar
ScaleAll(coeffs, by) == Tup([i \in 1 .. Len(coeffs) |-> FMul(coeffs[i], by)])

fft(d, log_cpus) ==
    [d EXCEPT !.coeffs = best_fft(d.coeffs, log_cpus, d.omega, d.exp)]

\* ifft with a bug: the result is not divided by the size of the domain
ifft_without_minv(d, log_cpus) ==
    [d EXCEPT !.coeffs = best_fft(d.coeffs, log_cpus, d.omegainv, d.exp)]

ifft(d, log_cpus) ==
    [d EXCEPT !.coeffs =
        ScaleAll(best_fft(d.coeffs, log_cpus, d.omegainv, d.exp), d.minv)]

\* coefficient i multiplied by g^i
distribute_powers(d, g) ==
    [d EXCEPT !.coeffs = Tup([i \in 1 .. Len(d.coeffs) |->
                             FMul(d.coeffs[i], FPow(g, i - 1))])]

coset_fft(d, log_cpus) == fft(distribute_powers(d, FrGenerator), log_cpus)

icoset_fft(d, log_cpus) == distribute_powers(ifft(d, log_cpus), d.geninv)

\* z(tau) = tau^m - 1 with m the number of stored coefficients
z(d, tau) == FSub(FPow(tau, Len(d.coeffs)), 1)

divide_by_z_on_coset(d) ==
    [d EXCEPT !.coeffs = ScaleAll(d.coeffs, FInv(z(d, FrGenerator)))]

\* mul_assign with a bug: the coefficients of other are taken in reverse
mul_assign_reversed(d, other) ==
    [d EXCEPT !.coeffs = Tup([i \in 1 .. Len(d.coeffs) |->
                             FMul(d.coeffs[i], other.coeffs[Len(d.coeffs) + 1 - i])])]

\* pointwise product; the source asserts equal lengths
mul_assign(d, other) ==
    [d EXCEPT !.coeffs = Tup([i \in 1 .. Len(d.coeffs) |->
                             FMul(d.coeffs[i], other.coeffs[i])])]

sub_assign(d, other) ==
    [d EXCEPT !.coeffs = Tup([i \in 1 .. Len(d.coeffs) |->
                             FSub(d.coeffs[i], other.coeffs[i])])]

\* EvaluationDomain::len
len(d) == 2 * (2 ^ d.exp)


(***************************************************************************)
(* Encodings and the Fiat-Shamir transcript.                               *)
(***************************************************************************)
\* PrimeField::to_repr: the canonical little-endian bytes of a scalar
to_repr(x) == <<x % 256, x \div 256>>

\* UncompressedEncoding::to_uncompressed: the big-endian bytes of a point
to_uncompressed(g) == <<g \div 256, g % 256>>

\* Transcript::new(label)
TranscriptNew(label) == [sep |-> label, log |-> <<>>]

\* Transcript::append_message(label, message)
append_message(t, label, message) ==
    [t EXCEPT !.log = Append(@, [label |-> label, msg |-> message])]

LabelCode(label) ==
    CASE label = "input" -> 1
      [] label = "aux_commit" -> 2
      [] label = "random" -> 3
      [] OTHER -> 4

RECURSIVE AbsorbBytes(_, _)
AbsorbBytes(acc, bytes) ==
    IF bytes = <<>> THEN acc
    ELSE AbsorbBytes(FAdd(FMul(acc, 263), Head(bytes) + 1), Tail(bytes))

RECURSIVE AbsorbLog(_, _)
AbsorbLog(acc, log) ==
    IF log = <<>> THEN acc
    ELSE AbsorbLog(
            AbsorbBytes(FAdd(FMul(acc, 263), LabelCode(Head(log).label)),
                        Head(log).msg),
            Tail(log))

\* Fr::random(merlin_rng(transcript, label)): the scalar read from the PRG
\* forked from the transcript's current state; the transcript is not changed
merlin_rng(t, label) ==
    FAdd(FMul(AbsorbLog(17, t.log), 263), LabelCode(label))

(***************************************************************************)
(* multiexp.rs: density trackers and multi-exponentiation.                 *)
(***************************************************************************)
DensityTrackerNew == [bv |-> <<>>, total_density |-> 0]

add_element(d) == [d EXCEPT !.bv = Append(@, FALSE)]

\* DensityTracker::inc(idx): sets the bit once
inc(d, idx) ==
    IF d.bv[idx + 1] THEN d
    ELSE [bv |-> [d.bv EXCEPT ![idx + 1] = TRUE],
          total_density |-> d.total_density + 1]

get_total_density(d) == d.total_density

\* FullDensity for n exponents
FullDensity(n) == Tup([i \in 1 .. n |-> TRUE])

\* multiexp over (bases, skip): exponent i meets the next unread base when
\* density[i] holds and is skipped otherwise.  The result is the sum, or an
\* error when the bases run out.
RECURSIVE MultiexpFrom(_, _, _, _, _)
MultiexpFrom(bases, pos, density, exponents, i) ==
    IF i > Len(exponents) THEN [err |-> "none", val |-> 0]
    ELSE IF ~density[i] THEN MultiexpFrom(bases, pos, density, exponents, i + 1)
    ELSE IF pos > Len(bases) THEN [err |-> "IoError", val |-> 0]
    ELSE LET rest == MultiexpFrom(bases, pos + 1, density, exponents, i + 1)
         IN  IF rest.err # "none" THEN rest
             ELSE [err |-> "none",
                   val |-> FAdd(FMul(exponents[i], bases[pos]), rest.val)]

multiexp(bases, skip, density, exponents) ==
    MultiexpFrom(bases, skip + 1, density, exponents, 1)


(***************************************************************************)
(* Circuits.  A circuit is the sequence of builder calls its synthesize    *)
(* makes; a value closure is a known value, a missing value (None), or the *)
(* product of two earlier variables (AllocatedNum::mul).                   *)
(***************************************************************************)
Input(i) == [t |-> "Input", i |-> i]
Aux(i) == [t |-> "Aux", i |-> i]
\* ConstraintSystem::one()
One == Input(0)

Term(var, coeff) == [var |-> var, coeff |-> coeff]
\* lc + var and lc - var
Plus(var) == Term(var, 1)
Minus(var) == Term(var, FrModulus - 1)

\* Option<value> as a closure result: None is -1
FVal(v) == IF v = -1
           THEN [k |-> "missing", v |-> 0, x |-> One, y |-> One]
           ELSE [k |-> "val", v |-> v % FrModulus, x |-> One, y |-> One]
FMulOf(x, y) == [k |-> "mul", v |-> 0, x |-> x, y |-> y]

OpAlloc(f) == [op |-> "alloc", f |-> f, a |-> <<>>, b |-> <<>>, c |-> <<>>]
OpAllocInput(f) == [op |-> "alloc_input", f |-> f, a |-> <<>>, b |-> <<>>, c |-> <<>>]
OpEnforce(a, b, c) == [op |-> "enforce", f |-> FVal(0), a |-> a, b |-> b, c |-> c]
OpEndAuxBlock == [op |-> "end_aux_block", f |-> FVal(0), a |-> <<>>, b |-> <<>>, c |-> <<>>]
OpAllocRandom == [op |-> "alloc_random", f |-> FVal(0), a |-> <<>>, b |-> <<>>, c |-> <<>>]

\* AllocatedNum::mul: allocate the product, enforce x * y = product
NumMul(x, y, product) ==
    << OpAlloc(FMulOf(x, y)),
       OpEnforce(<<Plus(x)>>, <<Plus(y)>>, <<Plus(product)>>) >>

\* XorDemo::synthesize with a, b in {0, 1} or None
XorDemo(a, b) ==
    LET c == IF a = -1 \/ b = -1 THEN -1 ELSE (a + b) % 2
    IN  << OpAlloc(FVal(a)),
           OpEnforce(<<Plus(One), Minus(Aux(0))>>, <<Plus(Aux(0))>>, <<>>),
           OpAlloc(FVal(b)),
           OpEnforce(<<Plus(One), Minus(Aux(1))>>, <<Plus(Aux(1))>>, <<>>),
           OpAllocInput(FVal(c)),
           OpEnforce(<<Plus(Aux(0)), Plus(Aux(0))>>, <<Plus(Aux(1))>>,
                     <<Plus(Aux(0)), Plus(Aux(1)), Minus(Input(1))>>) >>

\* MultWithZeroCoeffs::synthesize
MultWithZeroCoeffs(a, b, c, one_var) ==
    << OpAlloc(FVal(a)), OpAlloc(FVal(b)), OpAlloc(FVal(c)),
       OpEnforce(<<Plus(Aux(0))>>,
                 <<Term(IF one_var THEN One ELSE Aux(0), 0), Plus(Aux(1))>>,
                 <<Plus(Aux(2))>>) >>

\* coin1::Coin1::synthesize with a and b of length 2
Coin1(a0, a1, b0, b1) ==
    << OpAlloc(FVal(a0)), OpAlloc(FVal(a1)), OpAlloc(FVal(b0)), OpAlloc(FVal(b1)),
       OpEndAuxBlock,
       OpAllocRandom >>
    \o NumMul(Input(1), Aux(0), Aux(4))
    \o NumMul(Aux(4), Aux(1), Aux(5))
    \o NumMul(Input(1), Aux(2), Aux(6))
    \o NumMul(Aux(6), Aux(3), Aux(7))
    \o << OpEnforce(<<>>, <<>>, <<Plus(Aux(5)), Minus(Aux(7))>>) >>

\* test_3blocks_2coins::Test::synthesize
Blocks3Coins2(a, b, c, d, e) ==
    << OpAlloc(FVal(a)),
       \* AllocatedNum::inputize
       OpAllocInput(FVal(a)),
       OpEnforce(<<Plus(Input(1))>>, <<Plus(One)>>, <<Plus(Aux(0))>>),
       OpAlloc(FVal(b)),
       OpEndAuxBlock,
       OpAlloc(FVal(c)),
       OpEndAuxBlock,
       OpAllocRandom,
       OpAlloc(FVal(d)), OpAlloc(FVal(e)),
       OpEndAuxBlock,
       OpAllocRandom >>
    \o NumMul(Aux(0), Aux(1), Aux(5))
    \o NumMul(Aux(5), Aux(2), Aux(6))
    \o NumMul(Aux(6), Aux(3), Aux(7))
    \o NumMul(Aux(7), Aux(4), Aux(8))
    \o NumMul(Aux(8), Input(2), Aux(9))
    \o NumMul(Aux(9), Input(3), Aux(10))
    \o NumMul(Input(2), Input(3), Aux(11))
    \o << OpEnforce(<<>>, <<>>, <<Plus(Aux(10)), Minus(Aux(11))>>) >>

\* with the pinning row of the input ONE, one row more than the largest
\* domain of the field holds
BigRows == 2 ^ (FrS - 1)

\* the builder calls of a circuit [name, w]
Script(circuit) ==
    LET w == circuit.w
    IN  CASE circuit.name = "XorDemo" -> XorDemo(w[1], w[2])
          [] circuit.name = "MultOneVar" -> MultWithZeroCoeffs(w[1], w[2], w[3], TRUE)
          [] circuit.name = "MultOtherVar" -> MultWithZeroCoeffs(w[1], w[2], w[3], FALSE)
          [] circuit.name = "Coin1" -> Coin1(w[1], w[2], w[3], w[4])
          [] circuit.name = "Blocks3Coins2" -> Blocks3Coins2(w[1], w[2], w[3], w[4], w[5])
          \* a circuit of one public input x with x * 1 = x
          [] circuit.name = "InputOnly" ->
               << OpAllocInput(FVal(w[1])),
                  OpEnforce(<<Plus(Input(1))>>, <<Plus(One)>>, <<Plus(Input(1))>>) >>
          \* a circuit that draws a coin x before any aux block, x * 1 = x
          [] circuit.name = "CoinFirst" ->
               << OpAllocRandom,
                  OpAlloc(FVal(w[1])),
                  OpEnforce(<<Plus(Input(1))>>, <<Plus(One)>>, <<Plus(Input(1))>>) >>
          \* a circuit that ends an aux block with no variable in it
          [] circuit.name = "EmptyBlock" ->
               << OpAlloc(FVal(w[1])), OpEndAuxBlock, OpEndAuxBlock >>
          \* a circuit that declares two aux blocks and ends one
          [] circuit.name = "EndsFewer" ->
               << OpAlloc(FVal(w[1])), OpEndAuxBlock, OpAllocRandom,
                  OpEnforce(<<Plus(Input(1))>>, <<Plus(One)>>, <<Plus(Input(1))>>) >>
          \* a circuit that declares one aux block and ends two
          [] circuit.name = "EndsMore" ->
               << OpAlloc(FVal(w[1])), OpEndAuxBlock,
                  OpAlloc(FVal(w[1])), OpEndAuxBlock >>
          \* a circuit of BigRows constraints 1 * 1 = 1 and no variable
          [] circuit.name = "Big" ->
               Tup([i \in 1 .. BigRows |->
                   OpEnforce(<<Plus(One)>>, <<Plus(One)>>, <<Plus(One)>>)])

\* CcCircuit::num_aux_blocks
num_aux_blocks(circuit) ==
    CASE circuit.name = "Coin1" -> 1
      [] circuit.name = "Blocks3Coins2" -> 3
      [] circuit.name = "EmptyBlock" -> 2
      [] circuit.name = "EndsFewer" -> 2
      [] circuit.name = "EndsMore" -> 1
      [] OTHER -> 0


(***************************************************************************)
(* Trusted setup: generate_parameters.  The key-assembly synthesizer       *)
(* records the shape of the circuit; no value closure is evaluated.        *)
(***************************************************************************)
RECURSIVE AssembleFrom(_, _, _)
AssembleFrom(script, i, ka) ==
    IF i > Len(script) THEN ka
    ELSE LET o == script[i]
         IN  AssembleFrom(script, i + 1,
               CASE o.op = "alloc" ->
                      [ka EXCEPT !.num_aux = @ + 1]
                 [] o.op = "alloc_input" ->
                      [ka EXCEPT !.num_inputs = @ + 1,
                                 !.transcript = Append(@, "PublicInput")]
                 [] o.op = "alloc_random" ->
                      [ka EXCEPT !.num_inputs = @ + 1,
                                 !.transcript = Append(@, "Coin")]
                 [] o.op = "end_aux_block" ->
                      [ka EXCEPT !.aux_block_indices = Append(@, ka.num_aux),
                                 !.transcript = Append(@, "AuxCommit")]
                 [] o.op = "enforce" ->
                      [ka EXCEPT !.rows = Append(@, <<o.a, o.b, o.c>>)])

\* the assembly after synthesize and the pinning rows x_i * 0 = 0
KeypairAssembly(circuit) ==
    LET ka == AssembleFrom(Script(circuit), 1,
                  [num_inputs |-> 1, num_aux |-> 0, rows |-> <<>>,
                   transcript |-> <<>>, aux_block_indices |-> <<>>])
    IN  [ka EXCEPT !.rows = @ \o Tup([i \in 1 .. ka.num_inputs |->
                                     << <<Plus(Input(i - 1))>>, <<>>, <<>> >>])]

\* the value at tau of the Lagrange polynomial of point omega^j of a domain
\* of size m: (1/m) * sum_i (tau * omega^-j)^i
LagrangeAt(tau, omegainv, minv, m, j) ==
    LET x == FMul(tau, FPow(omegainv, j))
    IN  FMul(minv, SumSeq(Tup([i \in 1 .. m |-> FPow(x, i - 1)])))

\* the value at tau of the polynomial of variable var in query q (1: A, 2: B,
\* 3: C), from the Lagrange values lag of the rows
QueryAt(rows, lag, var, q) ==
    SumSeq(Tup([r \in 1 .. Len(rows) |->
        SumSeq(Tup([k \in 1 .. Len(rows[r][q]) |->
            IF rows[r][q][k].var = var
            THEN FMul(rows[r][q][k].coeff, lag[r]) ELSE 0]))]))

\* the sub-sequence of the non-zero elements
RECURSIVE NonZero(_)
NonZero(s) ==
    IF s = <<>> THEN <<>>
    ELSE IF Head(s) = 0 THEN NonZero(Tail(s))
    ELSE <<Head(s)>> \o NonZero(Tail(s))

\* the variables of the assembly: the inputs, then the aux variables
Variables(ka) ==
    Tup([i \in 1 .. ka.num_inputs |-> Input(i - 1)])
    \o Tup([j \in 1 .. ka.num_aux |-> Aux(j - 1)])

\* the Lagrange values at tau of the rows of the assembly
LagrangeValues(ka, dom, tau) ==
    Tup([r \in 1 .. Len(ka.rows) |->
        LagrangeAt(tau, dom.omegainv, dom.minv, Len(dom.coeffs), r - 1)])

\* the values at tau of the polynomials of query q, one per variable
QueryValues(ka, lag, vars, q) ==
    Tup([n \in 1 .. Len(vars) |-> QueryAt(ka.rows, lag, vars[n], q)])

\* beta * u + alpha * v + w, one per variable
ExtValues(alpha, beta, u, v, w) ==
    Tup([n \in 1 .. Len(u) |->
        FAdd(FAdd(FMul(beta, u[n]), FMul(alpha, v[n])), w[n])])

\* the parameters from the values of the queries
ParametersFrom(ka, dom, u, v, ext, alpha, beta, gamma, deltas, tau) ==
    LET m == Len(dom.coeffs)
        k == Len(ka.aux_block_indices)
        block_start(b) == IF b = 0 THEN 0 ELSE ka.aux_block_indices[b]
        block_end(b) == IF b = k THEN ka.num_aux ELSE ka.aux_block_indices[b + 1]
    IN  [err |-> "none",
         vk |-> [alpha_g1 |-> alpha, beta_g1 |-> beta, beta_g2 |-> beta,
                 gamma_g2 |-> gamma, deltas_g1 |-> deltas, deltas_g2 |-> deltas,
                 ic |-> Tup([i \in 1 .. ka.num_inputs |-> FMul(ext[i], FInv(gamma))]),
                 transcript |-> ka.transcript],
         h |-> Tup([i \in 1 .. m - 1 |->
                   FMul(FMul(FPow(tau, i - 1), z(dom, tau)), FInv(deltas[k + 1]))]),
         ls |-> Tup([b1 \in 1 .. k + 1 |->
                   Tup([j \in 1 .. block_end(b1 - 1) - block_start(b1 - 1) |->
                       FMul(ext[ka.num_inputs + block_start(b1 - 1) + j],
                            FInv(deltas[b1]))])]),
         a |-> NonZero(u),
         b_g1 |-> NonZero(v),
         b_g2 |-> NonZero(v)]

ParametersOfQueries(ka, dom, u, v, w, alpha, beta, gamma, deltas, tau) ==
    ParametersFrom(ka, dom, u, v, ExtValues(alpha, beta, u, v, w),
                   alpha, beta, gamma, deltas, tau)

ParametersOfRows(ka, dom, lag, vars, alpha, beta, gamma, deltas, tau) ==
    ParametersOfQueries(ka, dom, QueryValues(ka, lag, vars, 1),
                        QueryValues(ka, lag, vars, 2), QueryValues(ka, lag, vars, 3),
                        alpha, beta, gamma, deltas, tau)

ParametersOver(ka, dom, alpha, beta, gamma, deltas, tau) ==
    IF dom.err # "none" THEN [err |-> dom.err]
    ELSE IF gamma = 0 \/ \E b \in 1 .. Len(deltas) : deltas[b] = 0
    THEN [err |-> "UnexpectedIdentity"]
    ELSE ParametersOfRows(ka, dom, LagrangeValues(ka, dom, tau), Variables(ka),
                          alpha, beta, gamma, deltas, tau)

ParametersOfAssembly(ka, alpha, beta, gamma, deltas, tau) ==
    ParametersOver(ka, from_coeffs(Zeros(Len(ka.rows))),
                   alpha, beta, gamma, deltas, tau)

generate_parameters(circuit, alpha, beta, gamma, deltas, tau) ==
    ParametersOfAssembly(KeypairAssembly(circuit), alpha, beta, gamma, deltas, tau)


(***************************************************************************)
(* mirage/prover.rs: ProvingAssignment and its builder operations.  Each   *)
(* operation returns [err, pa]: the error it returns ("none" for Ok,       *)
(* "panic" for a failed assertion or index) and the assignment afterwards. *)
(***************************************************************************)
\* eval: the value of lc, and the density bits of its non-zero-coefficient
\* terms; track_input / track_aux are FALSE where the source passes None
RECURSIVE EvalFrom(_, _, _, _, _, _, _)
EvalFrom(lc, k, st, track_input, track_aux, input_assignment, aux_assignment) ==
    IF k > Len(lc) THEN st
    ELSE LET index == lc[k].var
             coeff == lc[k].coeff
             tmp == IF index.t = "Input" THEN At(input_assignment, index.i)
                    ELSE At(aux_assignment, index.i)
             next ==
                IF coeff = 0 THEN st
                ELSE [acc |-> FAdd(st.acc, IF coeff # 1 THEN FMul(tmp, coeff) ELSE tmp),
                      input_density |->
                          IF index.t = "Input" /\ track_input
                          THEN inc(st.input_density, index.i) ELSE st.input_density,
                      aux_density |->
                          IF index.t = "Aux" /\ track_aux
                          THEN inc(st.aux_density, index.i) ELSE st.aux_density]
         IN  EvalFrom(lc, k + 1, next, track_input, track_aux,
                      input_assignment, aux_assignment)

\* eval with a bug: a zero-coefficient term sets the density bit of its
\* variable
RECURSIVE EvalFromTrackingZeros(_, _, _, _, _, _, _)
EvalFromTrackingZeros(lc, k, st, track_input, track_aux, input_assignment, aux_assignment) ==
    IF k > Len(lc) THEN st
    ELSE LET index == lc[k].var
             coeff == lc[k].coeff
             tmp == IF index.t = "Input" THEN At(input_assignment, index.i)
                    ELSE At(aux_assignment, index.i)
             next ==
                [acc |-> IF coeff = 0 THEN st.acc
                         ELSE FAdd(st.acc, IF coeff # 1 THEN FMul(tmp, coeff) ELSE tmp),
                 input_density |->
                     IF index.t = "Input" /\ track_input
                     THEN inc(st.input_density, index.i) ELSE st.input_density,
                 aux_density |->
                     IF index.t = "Aux" /\ track_aux
                     THEN inc(st.aux_density, index.i) ELSE st.aux_density]
         IN  EvalFromTrackingZeros(lc, k + 1, next, track_input, track_aux,
                                   input_assignment, aux_assignment)

eval_tracking_zeros(lc, input_density, track_input, aux_density, track_aux, input_assignment, aux_assignment) ==
    EvalFromTrackingZeros(lc, 1,
             [acc |-> 0, input_density |-> input_density, aux_density |-> aux_density],
             track_input, track_aux, input_assignment, aux_assignment)

eval(lc, input_density, track_input, aux_density, track_aux, input_assignment, aux_assignment) ==
    EvalFrom(lc, 1,
             [acc |-> 0, input_density |-> input_density, aux_density |-> aux_density],
             track_input, track_aux, input_assignment, aux_assignment)

\* the state create_proof builds before synthesis
ProvingAssignmentNew(kappa_3s) ==
    [a_aux_density |-> DensityTrackerNew,
     b_input_density |-> DensityTrackerNew,
     b_aux_density |-> DensityTrackerNew,
     a |-> <<>>, b |-> <<>>, c |-> <<>>,
     input_assignment |-> <<>>,
     aux_assignment |-> <<>>,
     kappa_3s |-> kappa_3s,
     pi_ds |-> <<>>,
     aux_blocks |-> <<>>,
     aux_block_indices |-> <<>>,
     transcript |-> TranscriptNew("mirage_aozdemir_1")]

\* the result of a value closure f() on the current assignment
Closure(f, pa) ==
    LET val(var) == IF var.t = "Input" THEN At(pa.input_assignment, var.i)
                    ELSE At(pa.aux_assignment, var.i)
    IN  CASE f.k = "missing" -> [err |-> "AssignmentMissing", v |-> 0]
          [] f.k = "val" -> [err |-> "none", v |-> f.v]
          [] f.k = "mul" -> [err |-> "none", v |-> FMul(val(f.x), val(f.y))]

\* alloc with a bug: the slot of the variable is pushed before the closure
\* is called
alloc_pushing_first(pa, f) ==
    LET r == Closure(f, pa)
        pushed == [pa EXCEPT !.aux_assignment = Append(@, r.v),
                             !.a_aux_density = add_element(@),
                             !.b_aux_density = add_element(@)]
    IN  IF r.err # "none" THEN [err |-> r.err, pa |-> pushed]
        ELSE [err |-> "none", pa |-> pushed]

alloc(pa, f) ==
    LET r == Closure(f, pa)
    IN  IF r.err # "none" THEN [err |-> r.err, pa |-> pa]
        ELSE [err |-> "none",
              pa |-> [pa EXCEPT !.aux_assignment = Append(@, r.v),
                                !.a_aux_density = add_element(@),
                                !.b_aux_density = add_element(@)]]

\* alloc_input with a bug: the value is not appended to the transcript
alloc_input_without_append(pa, f) ==
    LET r == Closure(f, pa)
    IN  IF r.err # "none" THEN [err |-> r.err, pa |-> pa]
        ELSE [err |-> "none",
              pa |-> [pa EXCEPT !.input_assignment = Append(@, r.v),
                                !.b_input_density = add_element(@)]]

alloc_input(pa, f) ==
    LET r == Closure(f, pa)
    IN  IF r.err # "none" THEN [err |-> r.err, pa |-> pa]
        ELSE [err |-> "none",
              pa |-> [pa EXCEPT !.input_assignment = Append(@, r.v),
                                !.transcript = append_message(@, "input", to_repr(r.v)),
                                !.b_input_density = add_element(@)]]

enforce(pa, a, b, c) ==
    LET ea == eval(a, DensityTrackerNew, FALSE, pa.a_aux_density, TRUE,
                   pa.input_assignment, pa.aux_assignment)
        eb == eval(b, pa.b_input_density, TRUE, pa.b_aux_density, TRUE,
                   pa.input_assignment, pa.aux_assignment)
        ec == eval(c, DensityTrackerNew, FALSE, DensityTrackerNew, FALSE,
                   pa.input_assignment, pa.aux_assignment)
    IN  [pa EXCEPT !.a = Append(@, ea.acc),
                   !.a_aux_density = ea.aux_density,
                   !.b = Append(@, eb.acc),
                   !.b_input_density = eb.input_density,
                   !.b_aux_density = eb.aux_density,
                   !.c = Append(@, ec.acc)]

alloc_random(pa) ==
    LET value == merlin_rng(pa.transcript, "random")
        r == alloc_input(pa, FVal(value))
    IN  [err |-> r.err, pa |-> r.pa, value |-> value]

\* ParameterSource::get_l(size, i) for in-memory parameters
get_l(params, i) == At(params.ls, i)

\* end_aux_block with a bug: an empty block is accepted
end_aux_block_without_assert(pa, params) ==
    LET i == Len(pa.aux_block_indices)
        start == IF pa.aux_block_indices = <<>> THEN 0
                 ELSE pa.aux_block_indices[Len(pa.aux_block_indices)]
        end == Len(pa.aux_assignment)
        block == SubSeq(pa.aux_assignment, start + 1, end)
        pushed == [pa EXCEPT !.aux_blocks = Append(@, block)]
        msm == multiexp(get_l(params, i), 0, FullDensity(end - start), block)
        vk == params.vk
        pi_d == FAdd(msm.val,
                     FMul(vk.deltas_g1[Len(vk.deltas_g1)], At(pa.kappa_3s, i)))
    IN  IF i >= Len(params.ls) THEN [err |-> "panic", pa |-> pushed]
        ELSE IF msm.err # "none" THEN [err |-> msm.err, pa |-> pushed]
        ELSE IF vk.deltas_g1 = <<>> \/ i >= Len(pa.kappa_3s)
        THEN [err |-> "panic", pa |-> pushed]
        ELSE [err |-> "none",
              pa |-> [pushed EXCEPT
                        !.transcript =
                            append_message(@, "aux_commit", to_uncompressed(pi_d)),
                        !.pi_ds = Append(@, pi_d),
                        !.aux_block_indices = Append(@, Len(pa.aux_assignment))]]

\* end_aux_block with a bug: the opening of the block is not recorded
end_aux_block_without_opening(pa, params) ==
    LET i == Len(pa.aux_block_indices)
        start == IF pa.aux_block_indices = <<>> THEN 0
                 ELSE pa.aux_block_indices[Len(pa.aux_block_indices)]
        end == Len(pa.aux_assignment)
        block == SubSeq(pa.aux_assignment, start + 1, end)
        msm == multiexp(get_l(params, i), 0, FullDensity(end - start), block)
        vk == params.vk
        pi_d == FAdd(msm.val,
                     FMul(vk.deltas_g1[Len(vk.deltas_g1)], At(pa.kappa_3s, i)))
    IN  IF ~(end > start) THEN [err |-> "panic", pa |-> pa]
        ELSE IF i >= Len(params.ls) THEN [err |-> "panic", pa |-> pa]
        ELSE IF msm.err # "none" THEN [err |-> msm.err, pa |-> pa]
        ELSE IF vk.deltas_g1 = <<>> \/ i >= Len(pa.kappa_3s)
        THEN [err |-> "panic", pa |-> pa]
        ELSE [err |-> "none",
              pa |-> [pa EXCEPT
                        !.transcript =
                            append_message(@, "aux_commit", to_uncompressed(pi_d)),
                        !.pi_ds = Append(@, pi_d),
                        !.aux_block_indices = Append(@, Len(pa.aux_assignment))]]

\* end_aux_block with a bug: D_b is blinded with the delta of the block
end_aux_block_blinding_with_delta_b(pa, params) ==
    LET i == Len(pa.aux_block_indices)
        start == IF pa.aux_block_indices = <<>> THEN 0
                 ELSE pa.aux_block_indices[Len(pa.aux_block_indices)]
        end == Len(pa.aux_assignment)
        block == SubSeq(pa.aux_assignment, start + 1, end)
        pushed == [pa EXCEPT !.aux_blocks = Append(@, block)]
        msm == multiexp(get_l(params, i), 0, FullDensity(end - start), block)
        vk == params.vk
        pi_d == FAdd(msm.val, FMul(At(vk.deltas_g1, i), At(pa.kappa_3s, i)))
    IN  IF ~(end > start) THEN [err |-> "panic", pa |-> pa]
        ELSE IF i >= Len(params.ls) THEN [err |-> "panic", pa |-> pushed]
        ELSE IF msm.err # "none" THEN [err |-> msm.err, pa |-> pushed]
        ELSE IF i >= Len(vk.deltas_g1) \/ i >= Len(pa.kappa_3s)
        THEN [err |-> "panic", pa |-> pushed]
        ELSE [err |-> "none",
              pa |-> [pushed EXCEPT
                        !.transcript =
                            append_message(@, "aux_commit", to_uncompressed(pi_d)),
                        !.pi_ds = Append(@, pi_d),
                        !.aux_block_indices = Append(@, Len(pa.aux_assignment))]]

end_aux_block(pa, params) ==
    LET i == Len(pa.aux_block_indices)
        start == IF pa.aux_block_indices = <<>> THEN 0
                 ELSE pa.aux_block_indices[Len(pa.aux_block_indices)]
        end == Len(pa.aux_assignment)
        block == SubSeq(pa.aux_assignment, start + 1, end)
        pushed == [pa EXCEPT !.aux_blocks = Append(@, block)]
        msm == multiexp(get_l(params, i), 0, FullDensity(end - start), block)
        vk == params.vk
        pi_d == FAdd(msm.val,
                     FMul(vk.deltas_g1[Len(vk.deltas_g1)], At(pa.kappa_3s, i)))
    IN  IF ~(end > start) THEN [err |-> "panic", pa |-> pa]
        ELSE IF i >= Len(params.ls) THEN [err |-> "panic", pa |-> pushed]
        ELSE IF msm.err # "none" THEN [err |-> msm.err, pa |-> pushed]
        ELSE IF vk.deltas_g1 = <<>> \/ i >= Len(pa.kappa_3s)
        THEN [err |-> "panic", pa |-> pushed]
        ELSE [err |-> "none",
              pa |-> [pushed EXCEPT
                        !.transcript =
                            append_message(@, "aux_commit", to_uncompressed(pi_d)),
                        !.pi_ds = Append(@, pi_d),
                        !.aux_block_indices = Append(@, Len(pa.aux_assignment))]]


(***************************************************************************)
(* create_proof after synthesize has returned Ok.                          *)
(***************************************************************************)
\* the pinning rows with a bug: the constant ONE is not pinned
RECURSIVE PinInputsAfterOne(_, _)
PinInputsAfterOne(pa, i) ==
    IF i + 1 >= Len(pa.input_assignment) THEN pa
    ELSE PinInputsAfterOne(enforce(pa, <<Plus(Input(i + 1))>>, <<>>, <<>>), i + 1)

\* the pinning rows: enforce(x_i * 0 = 0) for every input
RECURSIVE PinInputs(_, _)
PinInputs(pa, i) ==
    IF i >= Len(pa.input_assignment) THEN pa
    ELSE PinInputs(enforce(pa, <<Plus(Input(i))>>, <<>>, <<>>), i + 1)

\* the coefficients of h: the block of create_proof that builds the three
\* domains and returns a without its last coefficient
HFromDomains(a0, b0, c0, log_cpus) ==
    icoset_fft(
        divide_by_z_on_coset(
            sub_assign(mul_assign(coset_fft(ifft(a0, log_cpus), log_cpus),
                                  coset_fft(ifft(b0, log_cpus), log_cpus)),
                       coset_fft(ifft(c0, log_cpus), log_cpus))),
        log_cpus)

DropLast(coeffs) == SubSeq(coeffs, 1, Len(coeffs) - 1)

HOfDomains(a0, b0, c0, log_cpus) ==
    IF a0.err # "none" THEN [err |-> a0.err, coeffs |-> <<>>]
    ELSE [err |-> "none",
          coeffs |-> DropLast(HFromDomains(a0, b0, c0, log_cpus).coeffs)]

HCoeffs(pa, log_cpus) ==
    HOfDomains(from_coeffs(pa.a), from_coeffs(pa.b), from_coeffs(pa.c), log_cpus)

\* the first error among the MSM futures in the order they are waited on
FirstErr(results) ==
    IF \A i \in 1 .. Len(results) : results[i].err = "none" THEN "none"
    ELSE results[CHOOSE i \in 1 .. Len(results) :
                    /\ results[i].err # "none"
                    /\ \A j \in 1 .. i - 1 : results[j].err = "none"].err

NoProof == [a |-> 0, b |-> 0, c |-> 0, ds |-> <<>>]
Idle == [status |-> "none", err |-> "none", proof |-> NoProof, openings |-> <<>>]
Failed(err) == [status |-> "Err", err |-> err, proof |-> NoProof, openings |-> <<>>]
Panicked == [status |-> "panic", err |-> "panic", proof |-> NoProof, openings |-> <<>>]

\* g_c with a bug: the kappa_3 blinders of the commitments are not taken out
GcStartWithoutKappa(vk, r, s, kappa_3s) ==
    FAdd(FAdd(FMul(vk.deltas_g1[Len(vk.deltas_g1)], FMul(r, s)),
              FMul(vk.alpha_g1, s)),
         FMul(vk.beta_g1, r))

\* g_c before the MSM answers are folded in
GcStart(vk, r, s, kappa_3s) ==
    LET last == Len(vk.deltas_g1)
        fold == SumSeq(Tup([i \in 1 .. Len(kappa_3s) |->
                          FMul(FNeg(vk.deltas_g1[i]), kappa_3s[i])]))
    IN  FAdd(FAdd(FAdd(FMul(vk.deltas_g1[last], FMul(r, s)), fold),
                  FMul(vk.alpha_g1, s)),
             FMul(vk.beta_g1, r))

\* the proof from the answers of the MSM futures, waited on in this order
ProofOfAnswers(pa, vk, r, s, kappa_3s, ans) ==
    LET last == Len(vk.deltas_g1)
        a_answer == FAdd(ans.a_inputs.val, ans.a_aux.val)
        b1_answer == FAdd(ans.b_g1_inputs.val, ans.b_g1_aux.val)
        b2_answer == FAdd(ans.b_g2_inputs.val, ans.b_g2_aux.val)
        g_a == FAdd(FAdd(FMul(vk.deltas_g1[last], r), vk.alpha_g1), a_answer)
        g_b == FAdd(FAdd(FMul(vk.deltas_g2[last], s), vk.beta_g2), b2_answer)
        g_c == FAdd(FAdd(FAdd(FAdd(GcStart(vk, r, s, kappa_3s),
                                   FMul(a_answer, s)),
                              FMul(b1_answer, r)),
                         ans.h.val),
                    ans.l.val)
        waited == FirstErr(<<ans.a_inputs, ans.a_aux, ans.b_g1_inputs, ans.b_g1_aux,
                             ans.b_g2_inputs, ans.b_g2_aux, ans.h, ans.l>>)
    IN  IF waited # "none" THEN Failed(waited)
        ELSE [status |-> "Ok", err |-> "none",
              proof |-> [a |-> g_a, b |-> g_b, c |-> g_c, ds |-> pa.pi_ds],
              openings |-> pa.aux_blocks]

\* the aux assignment of the final block
FinalBlock(pa) ==
    LET num_blocks == Len(pa.aux_block_indices)
        start == IF num_blocks = 0 THEN 0 ELSE pa.aux_block_indices[num_blocks]
    IN  SubSeq(pa.aux_assignment, start + 1, Len(pa.aux_assignment))

\* one MSM future: the arguments of its multiexp call
Msm(bases, skip, density, exponents) ==
    [bases |-> bases, skip |-> skip, density |-> density, exponents |-> exponents]

\* the MSM futures with a bug: the aux part of the A query is read from the
\* start of the query, not after the inputs
MsmTasks_a_aux_without_skip(pa, params, hc) ==
    LET num_inputs == Len(pa.input_assignment)
        b_input_density_total == get_total_density(pa.b_input_density)
    IN  [h |-> Msm(params.h, 0, FullDensity(Len(hc.coeffs)), hc.coeffs),
         l |-> Msm(get_l(params, Len(pa.aux_block_indices)), 0,
                   FullDensity(Len(FinalBlock(pa))), FinalBlock(pa)),
         a_inputs |-> Msm(params.a, 0, FullDensity(num_inputs), pa.input_assignment),
         a_aux |-> Msm(params.a, 0, pa.a_aux_density.bv, pa.aux_assignment),
         b_g1_inputs |-> Msm(params.b_g1, 0, pa.b_input_density.bv, pa.input_assignment),
         b_g1_aux |-> Msm(params.b_g1, b_input_density_total, pa.b_aux_density.bv,
                          pa.aux_assignment),
         b_g2_inputs |-> Msm(params.b_g2, 0, pa.b_input_density.bv, pa.input_assignment),
         b_g2_aux |-> Msm(params.b_g2, b_input_density_total, pa.b_aux_density.bv,
                          pa.aux_assignment)]

\* the eight MSM futures create_proof starts, by the name of their variable
MsmTasks(pa, params, hc) ==
    LET num_inputs == Len(pa.input_assignment)
        b_input_density_total == get_total_density(pa.b_input_density)
    IN  [h |-> Msm(params.h, 0, FullDensity(Len(hc.coeffs)), hc.coeffs),
         l |-> Msm(get_l(params, Len(pa.aux_block_indices)), 0,
                   FullDensity(Len(FinalBlock(pa))), FinalBlock(pa)),
         a_inputs |-> Msm(params.a, 0, FullDensity(num_inputs), pa.input_assignment),
         a_aux |-> Msm(params.a, num_inputs, pa.a_aux_density.bv, pa.aux_assignment),
         b_g1_inputs |-> Msm(params.b_g1, 0, pa.b_input_density.bv, pa.input_assignment),
         b_g1_aux |-> Msm(params.b_g1, b_input_density_total, pa.b_aux_density.bv,
                          pa.aux_assignment),
         b_g2_inputs |-> Msm(params.b_g2, 0, pa.b_input_density.bv, pa.input_assignment),
         b_g2_aux |-> Msm(params.b_g2, b_input_density_total, pa.b_aux_density.bv,
                          pa.aux_assignment)]

\* the answer of an MSM future
MsmAnswer(task) == multiexp(task.bases, task.skip, task.density, task.exponents)

\* the early returns with a bug: only the deltas in G1 are checked
EarlyReturnCheckingG1(pa, params, hc, kappa_3s) ==
    LET vk == params.vk
    IN  IF hc.err # "none" THEN Failed(hc.err)
        ELSE IF Len(pa.aux_block_indices) >= Len(params.ls) THEN Panicked
        ELSE IF \E i \in 1 .. Len(vk.deltas_g1) : vk.deltas_g1[i] = 0
        THEN Failed("UnexpectedIdentity")
        ELSE IF vk.deltas_g1 = <<>> \/ Len(kappa_3s) > Len(vk.deltas_g1) THEN Panicked
        ELSE Idle

\* what create_proof returns before it waits on the futures: the error of the
\* domains, the delta check; status "none" when it goes on to the waits
EarlyReturn(pa, params, hc, kappa_3s) ==
    LET vk == params.vk
    IN  IF hc.err # "none" THEN Failed(hc.err)
        ELSE IF Len(pa.aux_block_indices) >= Len(params.ls) THEN Panicked
        ELSE IF \E i \in 1 .. Len(vk.deltas_g1) :
                    vk.deltas_g1[i] = 0 \/ vk.deltas_g2[i] = 0
        THEN Failed("UnexpectedIdentity")
        ELSE IF vk.deltas_g1 = <<>> \/ Len(kappa_3s) > Len(vk.deltas_g1) THEN Panicked
        ELSE Idle

ProofOfTasks(pa, vk, r, s, kappa_3s, t) ==
    ProofOfAnswers(pa, vk, r, s, kappa_3s, [n \in DOMAIN t |-> MsmAnswer(t[n])])

ProofOfH(pa, params, hc, r, s, kappa_3s) ==
    IF EarlyReturn(pa, params, hc, kappa_3s).status # "none"
    THEN EarlyReturn(pa, params, hc, kappa_3s)
    ELSE ProofOfTasks(pa, params.vk, r, s, kappa_3s, MsmTasks(pa, params, hc))

ProofOfPinned(pa, params, r, s, kappa_3s, log_cpus) ==
    ProofOfH(pa, params, HCoeffs(pa, log_cpus), r, s, kappa_3s)

\* create_proof after synthesize has returned Ok, the futures run in turn
create_proof_finish(pa0, params, r, s, kappa_3s, log_cpus) ==
    ProofOfPinned(PinInputs(pa0, 0), params, r, s, kappa_3s, log_cpus)

\* synthesize as one run: the builder calls of the circuit from call n on
RECURSIVE Synthesize(_, _, _, _)
Synthesize(r, script, n, params) ==
    IF n > Len(script) \/ r.err # "none" THEN r
    ELSE Synthesize(
            CASE script[n].op = "alloc" -> alloc(r.pa, script[n].f)
              [] script[n].op = "alloc_input" -> alloc_input(r.pa, script[n].f)
              [] script[n].op = "enforce" ->
                   [err |-> "none",
                    pa |-> enforce(r.pa, script[n].a, script[n].b, script[n].c)]
              [] script[n].op = "alloc_random" ->
                   [err |-> alloc_random(r.pa).err, pa |-> alloc_random(r.pa).pa]
              [] script[n].op = "end_aux_block" -> end_aux_block(r.pa, params),
            script, n + 1, params)

CreateProofOf(syn, params, r, s, kappa_3s, log_cpus) ==
    IF syn.err = "panic" THEN Panicked
    ELSE IF syn.err # "none" THEN Failed(syn.err)
    ELSE create_proof_finish(syn.pa, params, r, s, kappa_3s, log_cpus)

\* create_proof as one run on a worker of one thread per future in turn
create_proof(circuit, params, r, s, kappa_3s, log_cpus) ==
    IF Len(kappa_3s) # num_aux_blocks(circuit) THEN Panicked
    ELSE CreateProofOf(
            Synthesize(alloc_input(ProvingAssignmentNew(kappa_3s), FVal(1)),
                       Script(circuit), 1, params),
            params, r, s, kappa_3s, log_cpus)

(***************************************************************************)
(* mirage/verifier.rs                                                      *)
(***************************************************************************)
prepare_verifying_key(vk) ==
    [alpha_g1_beta_g2 |-> FMul(vk.alpha_g1, vk.beta_g2),
     neg_gamma_g2 |-> FNeg(vk.gamma_g2),
     neg_deltas_g2 |-> Tup([i \in 1 .. Len(vk.deltas_g2) |-> FNeg(vk.deltas_g2[i])]),
     ic |-> vk.ic,
     transcript |-> vk.transcript]

\* the loop of verify_proof over pvk.transcript from entry n; st.panic is set
\* by an index out of range
RECURSIVE ReplayFrom(_, _, _, _, _)
ReplayFrom(pvk, proof, public_inputs, n, st) ==
    IF n > Len(pvk.transcript) \/ st.panic THEN st
    ELSE LET t == pvk.transcript[n]
             coin == merlin_rng(st.transcript, "random")
             next ==
               CASE t = "Coin" ->
                      IF st.i >= Len(pvk.ic) THEN [st EXCEPT !.panic = TRUE]
                      ELSE [st EXCEPT
                              !.forks = Append(@, Len(st.transcript.log)),
                              !.coins = Append(@, coin),
                              !.transcript = append_message(@, "input", to_repr(coin)),
                              !.acc = FAdd(@, FMul(At(pvk.ic, st.i), coin)),
                              !.i = @ + 1]
                 [] t = "PublicInput" ->
                      IF st.i >= Len(pvk.ic) \/ st.public_inputs_i >= Len(public_inputs)
                      THEN [st EXCEPT !.panic = TRUE]
                      ELSE [st EXCEPT
                              !.acc = FAdd(@, FMul(At(pvk.ic, st.i),
                                                   At(public_inputs, st.public_inputs_i))),
                              !.transcript =
                                  append_message(@, "input",
                                      to_repr(At(public_inputs, st.public_inputs_i))),
                              !.public_inputs_i = @ + 1,
                              !.i = @ + 1]
                 [] t = "AuxCommit" ->
                      IF st.aux_commits_i >= Len(proof.ds)
                      THEN [st EXCEPT !.panic = TRUE]
                      ELSE [st EXCEPT
                              !.transcript =
                                  append_message(@, "aux_commit",
                                      to_uncompressed(At(proof.ds, st.aux_commits_i))),
                              !.aux_commits_i = @ + 1]
         IN  ReplayFrom(pvk, proof, public_inputs, n + 1, next)

\* the state of verify_proof when its loop ends
Replay(pvk, proof, public_inputs) ==
    IF pvk.ic = <<>>
    THEN [panic |-> TRUE, acc |-> 0, transcript |-> TranscriptNew("mirage_aozdemir_1"),
          public_inputs_i |-> 0, aux_commits_i |-> 0, i |-> 1,
          coins |-> <<>>, forks |-> <<>>]
    ELSE ReplayFrom(pvk, proof, public_inputs, 1,
            [panic |-> FALSE,
             acc |-> pvk.ic[1],
             transcript |-> append_message(TranscriptNew("mirage_aozdemir_1"),
                                           "input", to_repr(1)),
             public_inputs_i |-> 0, aux_commits_i |-> 0, i |-> 1,
             coins |-> <<>>, forks |-> <<>>])

\* multi_miller_loop(pairs).final_exponentiation(): the product of pairings
MultiMiller(pairs) == SumSeq(Tup([n \in 1 .. Len(pairs) |-> FMul(pairs[n][1], pairs[n][2])]))

\* verify_proof with a bug: the commitments D_i are left out of the pairings
verify_proof_without_ds(pvk, proof, public_inputs) ==
    LET st == Replay(pvk, proof, public_inputs)
        last == Len(pvk.neg_deltas_g2)
        multi_miller_input ==
            << <<proof.a, proof.b>>,
               <<st.acc, pvk.neg_gamma_g2>>,
               <<proof.c, pvk.neg_deltas_g2[last]>> >>
    IN  IF st.panic THEN "panic"
        ELSE IF st.i # Len(pvk.ic) \/ st.aux_commits_i # Len(proof.ds)
        THEN "InvalidVerifyingKey"
        ELSE IF last = 0 \/ last # Len(proof.ds) + 1 THEN "panic"
        ELSE IF pvk.alpha_g1_beta_g2 = MultiMiller(multi_miller_input)
        THEN "Ok"
        ELSE "InvalidProof"

verify_proof(pvk, proof, public_inputs) ==
    LET st == Replay(pvk, proof, public_inputs)
        last == Len(pvk.neg_deltas_g2)
        multi_miller_input ==
            << <<proof.a, proof.b>>,
               <<st.acc, pvk.neg_gamma_g2>>,
               <<proof.c, pvk.neg_deltas_g2[last]>> >>
            \o Tup([n \in 1 .. Len(proof.ds) |-> <<proof.ds[n], pvk.neg_deltas_g2[n]>>])
    IN  IF st.panic THEN "panic"
        ELSE IF st.i # Len(pvk.ic) \/ st.aux_commits_i # Len(proof.ds)
        THEN "InvalidVerifyingKey"
        ELSE IF last = 0 \/ last # Len(proof.ds) + 1 THEN "panic"
        ELSE IF pvk.alpha_g1_beta_g2 = MultiMiller(multi_miller_input)
        THEN "Ok"
        ELSE "InvalidProof"


(***************************************************************************)
(* kw15.rs: the linear-subspace argument.  Group elements are written as   *)
(* in the Mirage part: by their discrete logarithm, the identity is 0.     *)
(***************************************************************************)
identity == 0

\* Matrix::new
MatrixNew(num_cmts, num_wits) ==
    [num_cmts |-> num_cmts, num_wits |-> num_wits, nonzero_entries |-> <<>>]

\* Matrix::add_entry: [err, m], err "panic" for a failed assertion
add_entry(m, cmt_i, wit_i, value) ==
    IF ~(cmt_i < m.num_cmts) \/ ~(wit_i < m.num_wits)
    THEN [err |-> "panic", m |-> m]
    ELSE [err |-> "none",
          m |-> [m EXCEPT !.nonzero_entries = Append(@, <<cmt_i, wit_i, value>>)]]

\* nonzero_entries.chunks(chunk): the indices of the entries of each task
Chunks(n, chunk) ==
    Tup([t \in 1 .. (n + chunk - 1) \div chunk |->
        Tup([j \in 1 .. (IF t * chunk <= n THEN chunk ELSE n - (t - 1) * chunk) |->
            (t - 1) * chunk + j])])

\* key_gen up to the parallel scope: the accumulators p_g1 with one mutex
\* each (locks: the task that holds it, 0 when free), one task per chunk;
\* pc and tmp are where a task is in its statement and the value it read
KeyGenScope(m, k, a, chunk) ==
    [k |-> k, a |-> a,
     p_g1 |-> Tup([j \in 1 .. m.num_wits |-> identity]),
     locks |-> Tup([j \in 1 .. m.num_wits |-> 0]),
     chunks |-> Chunks(Len(m.nonzero_entries), chunk),
     pos |-> Tup([t \in 1 .. Len(Chunks(Len(m.nonzero_entries), chunk)) |-> 1]),
     pc |-> Tup([t \in 1 .. Len(Chunks(Len(m.nonzero_entries), chunk)) |-> "lock"]),
     tmp |-> Tup([t \in 1 .. Len(Chunks(Len(m.nonzero_entries), chunk)) |-> identity])]

\* the entry task t is at
KeyGenEntry(m, kg, t) == m.nonzero_entries[kg.chunks[t][kg.pos[t]]]

\* a lock that is granted whoever holds the mutex
MutexIgnored(kg, wit_i) == TRUE

\* Mutex::lock returns when no task holds the mutex of column wit_i
MutexFree(kg, wit_i) == At(kg.locks, wit_i) = 0

\* task t can take a step: it has an entry left and, at lock(), the mutex of
\* the entry's column is free
KeyGenCanStep(m, kg, t) ==
    /\ kg.pos[t] <= Len(kg.chunks[t])
    /\ kg.pc[t] = "lock" => MutexFree(kg, KeyGenEntry(m, kg, t)[2])

\* one step of *p_g1[wit_i].lock().unwrap() += val * k[cmt_i] in task t: the
\* lock, the read of the accumulator, then the write of the sum and the
\* drop of the guard
KeyGenAdd(m, kg, t) ==
    LET nz == KeyGenEntry(m, kg, t)
        add == FMul(nz[3], At(kg.k, nz[1]))
    IN  CASE kg.pc[t] = "lock" ->
               [kg EXCEPT !.locks[nz[2] + 1] = t, !.pc[t] = "read"]
          [] kg.pc[t] = "read" ->
               [kg EXCEPT !.tmp[t] = kg.p_g1[nz[2] + 1], !.pc[t] = "write"]
          [] kg.pc[t] = "write" ->
               [kg EXCEPT !.p_g1[nz[2] + 1] = FAdd(kg.tmp[t], add),
                          !.locks[nz[2] + 1] = 0,
                          !.tmp[t] = identity,
                          !.pc[t] = "lock",
                          !.pos[t] = @ + 1]

\* key_gen with a bug: a_g2 is a multiple of the generator, c_g2 of the identity
key_gen_a_g2_of_generator(k, a, p_g1) ==
    [pk |-> [p_g1 |-> p_g1],
     vk |-> [a_g2 |-> FMul(1, a),
             c_g2 |-> Tup([i \in 1 .. Len(k) |-> FMul(identity, FMul(k[i], a))])]]

\* key_gen after the scope: the keys
key_gen(k, a, p_g1) ==
    [pk |-> [p_g1 |-> p_g1],
     vk |-> [a_g2 |-> FMul(identity, a),
             c_g2 |-> Tup([i \in 1 .. Len(k) |-> FMul(identity, FMul(k[i], a))])]]

\* prove: [err, pf]
prove(pk, wits) ==
    IF Len(pk.p_g1) # Len(wits) THEN [err |-> "panic", pf |-> [pi_g1 |-> identity]]
    ELSE IF multiexp(pk.p_g1, 0, FullDensity(Len(wits)), wits).err # "none"
    THEN [err |-> "panic", pf |-> [pi_g1 |-> identity]]
    ELSE [err |-> "none",
          pf |-> [pi_g1 |-> multiexp(pk.p_g1, 0, FullDensity(Len(wits)), wits).val]]

\* PreparedVerifyingKey::from
PreparedVerifyingKeyFrom(vk) == [c_g2 |-> vk.c_g2, neg_a_g2 |-> FNeg(vk.a_g2)]

\* verify: "true", "false", or "panic" for the failed assertion
verify(vk, cmts, pf) ==
    IF Len(cmts) # Len(vk.c_g2) THEN "panic"
    ELSE IF MultiMiller(Tup([i \in 1 .. Len(cmts) |-> <<cmts[i], vk.c_g2[i]>>])
                        \o << <<pf.pi_g1, vk.neg_a_g2>> >>) = identity
    THEN "true"
    ELSE "false"

\* the commitments of a witness: M * wits, as random_statement computes them
RECURSIVE CommitmentsFrom(_, _, _, _)
CommitmentsFrom(entries, wits, n, cmts) ==
    IF n > Len(entries) THEN cmts
    ELSE CommitmentsFrom(entries, wits, n + 1,
            [cmts EXCEPT ![entries[n][1] + 1] =
                FAdd(@, FMul(entries[n][3], At(wits, entries[n][2])))])

Commitments(m, wits) ==
    CommitmentsFrom(m.nonzero_entries, wits, 1,
                    Tup([i \in 1 .. m.num_cmts |-> identity]))


(***************************************************************************)
(* The prover and verifier as a state machine: one create_proof call on a  *)
(* circuit, one step per builder call of its synthesize, one step per MSM  *)
(* future the worker pool completes, then one verify_proof call on what    *)
(* create_proof returned.                                                  *)
(***************************************************************************)
VARIABLES
    circuit,    \* the circuit given to create_proof: [name, w]
    params,     \* the Parameters given to create_proof
    origin,     \* where params come from: the circuit and trapdoors of the
                \* setup, and the delta set to the identity afterwards, if any
    env,        \* r, s, kappa_3s and the worker's log_num_threads
    prover,     \* the ProvingAssignment
    ip,         \* the next builder call of synthesize
    phase,      \* "start", "synth", "msm", "returned", "verified"
    tasks,      \* the MSM futures create_proof started
    answers,    \* the answers of the futures that have completed
    result,     \* what create_proof returned
    coins,      \* the coins alloc_random derived: [at, value]
    vin,        \* the arguments of verify_proof
    vres,       \* what verify_proof returned
    \* KW15
    matrix,     \* the Matrix
    keygen,     \* key_gen in its parallel scope: k, a, p_g1, the tasks
    keys,       \* what key_gen returned: [pk, vk]
    statement,  \* the witness and its commitments: [wits, cmts]
    pf,         \* what prove returned
    ok,         \* what verify returned
    kw_phase,   \* "build", "keygen", "keys", "proved", "verified", "panic"
    \* cp_link
    cp,         \* the commit keys, the vectors, the blinders and the
                \* commitments: [k, js, vectors, rands_1, rands_2, cmts_1, cmts_2]
    \* EvaluationDomain
    dom_in,     \* the coefficient vectors given: [a, b, log_cpus]
    dom_a,      \* an EvaluationDomain, or the error of from_coeffs
    dom_b,      \* a second one
    dom_ops,    \* the operations applied so far, in order
    dom_trail,  \* the coefficients of dom_a before each of them
    \* curve_io
    ser_x,      \* the key or proof written: [kind, ...]
    ser_bytes,  \* the bytes of the writer
    ser_y,      \* what read returned
    ser_phase,  \* "new", "written", "read"
    \* trace
    trace_env,  \* whether the environment variable TRACE is set
    is_on,      \* IS_ON of each thread: "None", "true" or "false"
    num_indent, \* NUM_INDENT
    stdout,     \* the lines printed
    timers,     \* the TimerInfo values each thread holds, innermost last
    \* parallel_fft
    par         \* one call of parallel_fft: the slice a, tmp, the tasks of
                \* the two scopes and the accesses they have made

kw_vars == <<matrix, keygen, keys, statement, pf, ok, kw_phase>>

cp_vars == <<cp>>

dom_vars == <<dom_in, dom_a, dom_b, dom_ops, dom_trail>>

ser_vars == <<ser_x, ser_bytes, ser_y, ser_phase>>

trace_vars == <<trace_env, is_on, num_indent, stdout, timers>>

par_vars == <<par>>

mirage_vars == <<circuit, params, origin, env, prover, ip, phase, tasks, answers,
                 result, coins, vin, vres>>

\* the variables a step of one part of the library leaves alone
beside_mirage == <<kw_vars, cp_vars, dom_vars, ser_vars, trace_vars, par_vars>>
beside_kw == <<mirage_vars, cp_vars, dom_vars, ser_vars, trace_vars, par_vars>>
beside_cp == <<mirage_vars, dom_vars, ser_vars, trace_vars, par_vars>>
beside_dom == <<mirage_vars, kw_vars, cp_vars, ser_vars, trace_vars, par_vars>>
beside_ser == <<mirage_vars, kw_vars, cp_vars, dom_vars, trace_vars, par_vars>>
beside_trace == <<mirage_vars, kw_vars, cp_vars, dom_vars, ser_vars, par_vars>>
beside_par == <<mirage_vars, kw_vars, cp_vars, dom_vars, ser_vars, trace_vars>>

\* largest witness value of the multiplication circuits
WitMax == 1
\* largest log_num_threads of the worker
MaxLogCpus == 1

\* the circuits of the tests, each at one witness within the bounds
TestCircuits ==
    { [name |-> "XorDemo", w |-> <<1, 0>>],
      [name |-> "MultOneVar", w |-> <<1, 1, 1>>],
      [name |-> "MultOtherVar", w |-> <<1, 1, 1>>],
      [name |-> "Coin1", w |-> <<5, 6, 10, 3>>],
      [name |-> "Blocks3Coins2", w |-> <<1, 1, 1, 1, 1>>] }

TestCircuit(name) == CHOOSE c \in TestCircuits : c.name = name

XorWitnesses == {<<a, b>> : a \in {-1, 0, 1}, b \in {-1, 0, 1}}
MultWitnesses == {<<a, b, a * b + d>> : a \in 1 .. WitMax, b \in 1 .. WitMax, d \in 0 .. 1}
Coin1Witnesses ==
    {<<5, 6, 10, 3>>, <<5, 6, 10, 4>>, <<5, -1, 10, 3>>}
    \cup {<<a0, a1, a0 * a1, b1>> : a0 \in 1 .. WitMax, a1 \in 1 .. WitMax,
                                    b1 \in {1, 2}}
Blocks3Witnesses == {<<1, 1, 1, 1, 1>>, <<2, 1, 1, 1, 1>>, <<1, 1, -1, 1, 1>>}

BigCircuit == [name |-> "Big", w |-> <<>>]

Circuits ==
    [name : {"XorDemo"}, w : XorWitnesses]
    \cup [name : {"MultOneVar", "MultOtherVar"}, w : MultWitnesses]
    \cup [name : {"Coin1"}, w : Coin1Witnesses]
    \cup [name : {"Blocks3Coins2"}, w : Blocks3Witnesses]
    \cup [name : {"InputOnly"}, w : {<<3>>, <<-1>>}]
    \cup [name : {"CoinFirst"}, w : {<<3>>}]
    \cup [name : {"EmptyBlock", "EndsFewer", "EndsMore"}, w : {<<1>>}]
    \cup {BigCircuit}

\* trapdoors alpha, beta, gamma, deltas, tau: those of the tests and another
TestTrapdoor ==
    [alpha |-> 48577, beta |-> 22580, gamma |-> 53332,
     deltas |-> <<5481, 5482, 5483, 5483>>, tau |-> 3673]

Trapdoors ==
    { TestTrapdoor,
      [alpha |-> 2, beta |-> 3, gamma |-> 5, deltas |-> <<7, 11, 13, 17>>, tau |-> 6] }

\* the setup is given one delta per aux block the circuit ends, and one more
Setup(c, td) ==
    generate_parameters(c, td.alpha, td.beta, td.gamma,
                        SubSeq(td.deltas, 1,
                               Len(KeypairAssembly(c).aux_block_indices) + 1),
                        td.tau)

\* no parameters exist for the big circuit (its setup fails): it is proved
\* under those of XorDemo, which has no aux block either
SetupCircuit(c) == IF c.name = "Big" THEN TestCircuit("XorDemo") ELSE c

\* the circuits whose parameters create_proof is called with: the circuit
\* itself, or for the circuit that ends more blocks than it declares, a
\* circuit with as many L queries and one with a shorter L query
SetupCircuits(c) ==
    IF c.name = "EndsMore"
    THEN {TestCircuit("Blocks3Coins2"), [name |-> "EndsFewer", w |-> <<1>>]}
    ELSE {SetupCircuit(c)}

\* parameters whose verifying key has the identity as delta i of group g
ZeroDelta(p, g, i) ==
    IF g = 0 THEN p
    ELSE IF g = 1 THEN [p EXCEPT !.vk.deltas_g1[i] = 0]
    ELSE [p EXCEPT !.vk.deltas_g2[i] = 0]

TestEnv(c) ==
    [r |-> 27134, s |-> 17146, kappa_3s |-> SubSeq(<<1, 15, 5>>, 1, num_aux_blocks(c)),
     log_cpus |-> 0]

Envs(c) ==
    IF c = BigCircuit THEN {TestEnv(c)}
    ELSE { TestEnv(c),
           [TestEnv(c) EXCEPT !.log_cpus = MaxLogCpus],
           [r |-> 1, s |-> 0, kappa_3s |-> SubSeq(<<0, 2, 3>>, 1, num_aux_blocks(c)),
            log_cpus |-> MaxLogCpus] }
         \* a caller that passes no kappa_3 for the aux block
         \cup (IF c = TestCircuit("Coin1")
               THEN {[TestEnv(c) EXCEPT !.kappa_3s = <<>>]} ELSE {})
         \* a caller whose kappa_3 of the block that is never ended is zero
         \cup (IF c.name = "EndsFewer"
               THEN {[TestEnv(c) EXCEPT !.kappa_3s = <<2, 0>>]} ELSE {})

\* the deltas set to the identity: none (<<0, 0>>), or one of one group in
\* the runs of the tests
Tampers(c, td, e) ==
    {<<0, 0>>}
    \cup (IF c \in TestCircuits \cup {BigCircuit} /\ td = TestTrapdoor /\ e = TestEnv(c)
          THEN {<<g, i>> : g \in 1 .. 2, i \in 1 .. num_aux_blocks(c) + 1}
          ELSE {})

NoVin == [pvk |-> prepare_verifying_key(
                     [alpha_g1 |-> 0, beta_g2 |-> 0, gamma_g2 |-> 0,
                      deltas_g2 |-> <<>>, ic |-> <<>>, transcript |-> <<>>]),
          proof |-> NoProof, public_inputs |-> <<>>, kind |-> "none"]

NoTasks == <<>>

MirageInit ==
    \E c \in Circuits, td \in Trapdoors :
      \E e \in Envs(c), sc \in SetupCircuits(c) :
        \E tm \in Tampers(c, td, e) :
          /\ c = BigCircuit => td = TestTrapdoor
          /\ circuit = c
          /\ env = e
          /\ origin = [circuit |-> sc, td |-> td, tamper |-> tm]
          /\ params = ZeroDelta(Setup(sc, td), tm[1], tm[2])
          /\ prover = ProvingAssignmentNew(e.kappa_3s)
          /\ ip = 0
          /\ phase = "start"
          /\ tasks = NoTasks
          /\ answers = NoTasks
          /\ result = Idle
          /\ coins = <<>>
          /\ vin = NoVin
          /\ vres = "none"

\* create_proof up to the call of synthesize
CreateProofStart ==
    /\ phase = "start"
    /\ IF Len(env.kappa_3s) # num_aux_blocks(circuit)
       THEN /\ result' = Panicked
            /\ phase' = "returned"
            /\ UNCHANGED <<prover, ip>>
       ELSE /\ prover' = alloc_input(prover, FVal(1)).pa
            /\ ip' = 1
            /\ phase' = "synth"
            /\ UNCHANGED result
    /\ UNCHANGED <<circuit, params, origin, env, tasks, answers, coins, vin, vres>>
    /\ UNCHANGED beside_mirage

\* the next builder call of synthesize is op
AtOp(op) ==
    /\ phase = "synth"
    /\ ip <= Len(Script(circuit))
    /\ Script(circuit)[ip].op = op

\* a builder call returned r: synthesize goes on, or returns the error
BuilderReturn(r) ==
    /\ prover' = r.pa
    /\ IF r.err = "none"
       THEN /\ ip' = ip + 1
            /\ UNCHANGED <<phase, result>>
       ELSE /\ phase' = "returned"
            /\ result' = IF r.err = "panic" THEN Panicked ELSE Failed(r.err)
            /\ UNCHANGED ip
    /\ UNCHANGED <<circuit, params, origin, env, tasks, answers, vin, vres>>
    /\ UNCHANGED beside_mirage

Alloc ==
    /\ AtOp("alloc")
    /\ BuilderReturn(alloc(prover, Script(circuit)[ip].f))
    /\ UNCHANGED coins

AllocInput ==
    /\ AtOp("alloc_input")
    /\ BuilderReturn(alloc_input(prover, Script(circuit)[ip].f))
    /\ UNCHANGED coins

Enforce ==
    /\ AtOp("enforce")
    /\ \E o \in {Script(circuit)[ip]} :
          BuilderReturn([err |-> "none", pa |-> enforce(prover, o.a, o.b, o.c)])
    /\ UNCHANGED coins

AllocRandom ==
    /\ AtOp("alloc_random")
    /\ \E r \in {alloc_random(prover)} :
          /\ BuilderReturn(r)
          /\ coins' = Append(coins, [at |-> Len(prover.transcript.log),
                                     value |-> r.value])

EndAuxBlock ==
    /\ AtOp("end_aux_block")
    /\ BuilderReturn(end_aux_block(prover, params))
    /\ UNCHANGED coins

\* synthesize returned Ok: the pinning rows, the coefficients of h, the start
\* of the MSM futures and the check of the deltas
StartMsms ==
    /\ phase = "synth"
    /\ ip > Len(Script(circuit))
    /\ \E pa \in {PinInputs(prover, 0)} :
        \E hc \in {HCoeffs(pa, env.log_cpus)} :
         \E early \in {EarlyReturn(pa, params, hc, env.kappa_3s)} :
          /\ prover' = pa
          /\ IF early.status # "none"
             THEN /\ result' = early
                  /\ phase' = "returned"
                  /\ UNCHANGED tasks
             ELSE /\ tasks' = MsmTasks(pa, params, hc)
                  /\ phase' = "msm"
                  /\ UNCHANGED result
    /\ UNCHANGED <<circuit, params, origin, env, ip, answers, coins, vin, vres>>
    /\ UNCHANGED beside_mirage

\* the worker pool completes one of the futures, in any order
MsmDone ==
    /\ phase = "msm"
    /\ \E t \in DOMAIN tasks \ DOMAIN answers :
          answers' = [n \in DOMAIN answers \cup {t} |->
                         IF n = t THEN MsmAnswer(tasks[t]) ELSE answers[n]]
    /\ UNCHANGED <<circuit, params, origin, env, prover, ip, phase, tasks, result,
                   coins, vin, vres>>
    /\ UNCHANGED beside_mirage

\* every wait has returned: create_proof returns
WaitMsms ==
    /\ phase = "msm"
    /\ DOMAIN answers = DOMAIN tasks
    /\ result' = ProofOfAnswers(prover, params.vk, env.r, env.s, env.kappa_3s, answers)
    /\ phase' = "returned"
    /\ UNCHANGED <<circuit, params, origin, env, prover, ip, tasks, answers, coins,
                   vin, vres>>
    /\ UNCHANGED beside_mirage

\* the public inputs of the statement proved: the inputs the circuit
\* allocated with alloc_input, in order
RECURSIVE PublicInputsFrom(_, _, _)
PublicInputsFrom(schedule, n, i) ==
    IF n > Len(schedule) THEN <<>>
    ELSE IF schedule[n] = "PublicInput"
    THEN <<At(prover.input_assignment, i)>> \o PublicInputsFrom(schedule, n + 1, i + 1)
    ELSE IF schedule[n] = "Coin" THEN PublicInputsFrom(schedule, n + 1, i + 1)
    ELSE PublicInputsFrom(schedule, n + 1, i)

PublicInputs == PublicInputsFrom(params.vk.transcript, 1, 1)

\* the arguments verify_proof is called with: those of the honest verifier,
\* or those with one change
VerifyInputsOf(honest) ==
    {honest,
     [honest EXCEPT !.kind = "proof", !.proof.a = FAdd(@, 1)],
     [honest EXCEPT !.kind = "proof", !.proof.b = FAdd(@, 1)],
     [honest EXCEPT !.kind = "proof", !.proof.c = FAdd(@, 1)],
     [honest EXCEPT !.kind = "ds long", !.proof.ds = Append(@, 1)],
     [honest EXCEPT !.kind = "ic long", !.pvk.ic = Append(@, 1)],
     [honest EXCEPT !.kind = "ic short", !.pvk.ic = SubSeq(@, 1, Len(@) - 1)],
     [honest EXCEPT !.kind = "inputs long", !.public_inputs = Append(@, 1)]}
    \cup {[honest EXCEPT !.kind = "proof", !.proof.ds[n] = FAdd(@, 1)] :
             n \in 1 .. Len(honest.proof.ds)}
    \cup {[honest EXCEPT !.kind = "ds short", !.proof.ds = SubSeq(@, 1, Len(@) - 1)] :
             n \in 1 .. (IF honest.proof.ds = <<>> THEN 0 ELSE 1)}
    \cup {[honest EXCEPT !.kind = "input", !.public_inputs[n] = FAdd(@, 1)] :
             n \in 1 .. Len(honest.public_inputs)}
    \cup {[honest EXCEPT !.kind = "inputs short",
                         !.public_inputs = SubSeq(@, 1, Len(@) - 1)] :
             n \in 1 .. (IF honest.public_inputs = <<>> THEN 0 ELSE 1)}

VerifyInputs ==
    VerifyInputsOf([pvk |-> prepare_verifying_key(params.vk), proof |-> result.proof,
                    public_inputs |-> PublicInputs, kind |-> "honest"])

Verify ==
    /\ phase = "returned"
    /\ result.status = "Ok"
    /\ \E v \in VerifyInputs :
          /\ vin' = v
          /\ vres' = verify_proof(v.pvk, v.proof, v.public_inputs)
    /\ phase' = "verified"
    /\ UNCHANGED <<circuit, params, origin, env, prover, ip, tasks, answers, result,
                   coins>>
    /\ UNCHANGED beside_mirage

(***************************************************************************)
(* KW15 as a state machine: a matrix is built with add_entry, key_gen      *)
(* draws k and a and accumulates P in parallel tasks, prove and verify     *)
(* are called on a witness and its commitments.                            *)
(***************************************************************************)
\* largest num_cmts and num_wits of a matrix, and largest number of entries
MaxCmts == 2
MaxWits == 2
MaxEntries == 2

\* the G1 values of the entries, the scalars the rng draws, the witnesses
KwValues == {2}
KwScalars == {1, 3}
KwWits == {0, 2}

SeqsOf(S, n) == [1 .. n -> S]

NoKeyGen ==
    [k |-> <<>>, a |-> 0, p_g1 |-> <<>>, locks |-> <<>>, chunks |-> <<>>, pos |-> <<>>,
     pc |-> <<>>, tmp |-> <<>>]
NoKeys == key_gen(<<>>, 0, <<>>)
NoStatement == [wits |-> <<>>, cmts |-> <<>>]
NoPf == [pi_g1 |-> identity]

KwInit ==
    /\ \E num_cmts \in 1 .. MaxCmts, num_wits \in 1 .. MaxWits :
          matrix = MatrixNew(num_cmts, num_wits)
    /\ keygen = NoKeyGen
    /\ keys = NoKeys
    /\ statement = NoStatement
    /\ pf = NoPf
    /\ ok = "none"
    /\ kw_phase = "build"

\* add_entry with indices in range, or one past it
AddEntry ==
    /\ kw_phase = "build"
    /\ Len(matrix.nonzero_entries) < MaxEntries
    /\ \E cmt_i \in 0 .. matrix.num_cmts, wit_i \in 0 .. matrix.num_wits,
          value \in KwValues :
          \E r \in {add_entry(matrix, cmt_i, wit_i, value)} :
             /\ matrix' = r.m
             /\ kw_phase' = IF r.err = "none" THEN "build" ELSE "panic"
    /\ UNCHANGED <<keygen, keys, statement, pf, ok>>
    /\ UNCHANGED beside_kw

\* key_gen draws k and a and opens the scope; the worker chooses the chunk
KeyGenStart ==
    /\ kw_phase = "build"
    /\ \E k \in SeqsOf(KwScalars, matrix.num_cmts), a \in KwScalars,
          chunk \in 1 .. (IF matrix.nonzero_entries = <<>> THEN 1
                          ELSE Len(matrix.nonzero_entries)) :
          keygen' = KeyGenScope(matrix, Tup(k), a, chunk)
    /\ kw_phase' = "keygen"
    /\ UNCHANGED <<matrix, keys, statement, pf, ok>>
    /\ UNCHANGED beside_kw

\* a task of the scope takes a step of the addition of its next entry
KeyGenTask ==
    /\ kw_phase = "keygen"
    /\ \E t \in 1 .. Len(keygen.chunks) :
          /\ KeyGenCanStep(matrix, keygen, t)
          /\ keygen' = KeyGenAdd(matrix, keygen, t)
    /\ UNCHANGED <<matrix, keys, statement, pf, ok, kw_phase>>
    /\ UNCHANGED beside_kw

\* the scope has joined: key_gen returns the keys
KeyGenReturn ==
    /\ kw_phase = "keygen"
    /\ \A t \in 1 .. Len(keygen.chunks) : keygen.pos[t] > Len(keygen.chunks[t])
    /\ keys' = key_gen(keygen.k, keygen.a, keygen.p_g1)
    /\ kw_phase' = "keys"
    /\ UNCHANGED <<matrix, keygen, statement, pf, ok>>
    /\ UNCHANGED beside_kw

\* prove on a witness; the statement is the witness and its commitments
Prove ==
    /\ kw_phase = "keys"
    /\ \E w \in SeqsOf(KwWits, matrix.num_wits) :
        \E r \in {prove(keys.pk, Tup(w))} :
          /\ statement' = [wits |-> Tup(w), cmts |-> Commitments(matrix, Tup(w))]
          /\ pf' = r.pf
          /\ kw_phase' = IF r.err = "none" THEN "proved" ELSE "panic"
    /\ UNCHANGED <<matrix, keygen, keys, ok>>
    /\ UNCHANGED beside_kw

KwVerify ==
    /\ kw_phase = "proved"
    /\ ok' = verify(PreparedVerifyingKeyFrom(keys.vk), statement.cmts, pf)
    /\ kw_phase' = "verified"
    /\ UNCHANGED <<matrix, keygen, keys, statement, pf>>
    /\ UNCHANGED beside_kw

(***************************************************************************)
(* commit.rs and commit/cp_link.rs: Pedersen commitments and the argument  *)
(* that pairs of commitments open to the same vector, built on KW15.       *)
(***************************************************************************)
\* CommitKey::new
CommitKeyNew(generators, blind_generator) ==
    [generators |-> generators, blind_generator |-> blind_generator]

\* CommitKey::commit: [err, val]; the unwrap panics when the multiexp fails
commit(ck, values, blind) ==
    IF multiexp(ck.generators, 0, FullDensity(Len(values)), values).err # "none"
    THEN [err |-> "panic", val |-> identity]
    ELSE [err |-> "none",
          val |-> FAdd(multiexp(ck.generators, 0, FullDensity(Len(values)), values).val,
                       FMul(ck.blind_generator, blind))]

\* the add_entry calls of cp_link::key_gen for vec_i, in order
CpLinkEntries(k, js, vec_i) ==
    LET k_len == Len(k.generators)
        cmt_i_1 == 2 * vec_i
        cmt_i_2 == 2 * vec_i + 1
        wit_i_start == (k_len + 2) * vec_i
        rand_i_1 == (k_len + 2) * vec_i + k_len
        rand_i_2 == (k_len + 2) * vec_i + k_len + 1
    IN  Tup([n \in 1 .. 2 * k_len |->
              IF n % 2 = 1
              THEN <<cmt_i_1, wit_i_start + (n - 1) \div 2, At(k.generators, (n - 1) \div 2)>>
              ELSE <<cmt_i_1, wit_i_start + (n - 1) \div 2,
                     At(At(js, vec_i).generators, (n - 1) \div 2)>>])
        \o << <<cmt_i_1, rand_i_1, k.blind_generator>>,
              <<cmt_i_2, rand_i_2, At(js, vec_i).blind_generator>> >>

RECURSIVE CpLinkAllEntries(_, _, _)
CpLinkAllEntries(k, js, vec_i) ==
    IF vec_i >= Len(js) THEN <<>>
    ELSE CpLinkEntries(k, js, vec_i) \o CpLinkAllEntries(k, js, vec_i + 1)

\* the matrix after add_entry of each of the entries from the n-th on
RECURSIVE AddEntries(_, _, _)
AddEntries(m, entries, n) ==
    IF n > Len(entries) THEN [err |-> "none", m |-> m]
    ELSE IF add_entry(m, entries[n][1], entries[n][2], entries[n][3]).err # "none"
    THEN add_entry(m, entries[n][1], entries[n][2], entries[n][3])
    ELSE AddEntries(add_entry(m, entries[n][1], entries[n][2], entries[n][3]).m,
                    entries, n + 1)

\* cp_link::key_gen up to the call of kw15::key_gen: [err, m]; indexing the
\* generators of a key J_i shorter than K panics
cp_link_matrix(k, js) ==
    IF \E i \in 1 .. Len(js) : Len(js[i].generators) < Len(k.generators)
    THEN [err |-> "panic", m |-> MatrixNew(2 * Len(js), (Len(k.generators) + 2) * Len(js))]
    ELSE AddEntries(MatrixNew(2 * Len(js), (Len(k.generators) + 2) * Len(js)),
                    CpLinkAllEntries(k, js, 0), 1)

\* the witness of cp_link::prove: vec || r1 || r2 for each zipped triple
RECURSIVE CpLinkWit(_, _, _)
CpLinkWit(vectors, rands_1, rands_2) ==
    IF vectors = <<>> \/ rands_1 = <<>> \/ rands_2 = <<>> THEN <<>>
    ELSE Head(vectors) \o <<Head(rands_1), Head(rands_2)>>
         \o CpLinkWit(Tail(vectors), Tail(rands_1), Tail(rands_2))

\* cp_link::prove with a bug: the blinders r2 are not zipped in
cp_link_prove_without_rands_2(pk, vectors, rands_1, rands_2) ==
    prove(pk, CpLinkWit(vectors, rands_1, <<>>))

\* cp_link::prove
cp_link_prove(pk, vectors, rands_1, rands_2) ==
    prove(pk, CpLinkWit(vectors, rands_1, rands_2))

\* the commitments of cp_link::verify: c1, c2 for each zipped pair
RECURSIVE CpLinkCmts(_, _)
CpLinkCmts(cmts_1, cmts_2) ==
    IF cmts_1 = <<>> \/ cmts_2 = <<>> THEN <<>>
    ELSE <<Head(cmts_1), Head(cmts_2)>> \o CpLinkCmts(Tail(cmts_1), Tail(cmts_2))

\* cp_link::verify
cp_link_verify(vk, cmts_1, cmts_2, proof) ==
    verify(PreparedVerifyingKeyFrom(vk), CpLinkCmts(cmts_1, cmts_2), proof)

(***************************************************************************)
(* cp_link as a state machine: key_gen on commit keys K and J_i (the       *)
(* matrix, then kw15::key_gen with its parallel scope), prove on vectors   *)
(* and blinders, verify on their commitments.                              *)
(***************************************************************************)
\* no domain
NoDomIn == [a |-> <<>>, b |-> <<>>, log_cpus |-> 0]
NoDomain == [err |-> "none", coeffs |-> <<>>]

(***************************************************************************)
(* The tests of domain.rs as state machines.  fft_composition: a domain of *)
(* 2^e random coefficients under the transforms, in any order.             *)
(***************************************************************************)
\* largest exponent of the length of the coefficient vectors
MaxFftExp == 2
\* largest number of transforms applied to one domain
MaxOps == 2
\* the coefficients the vectors are drawn from
DomValues == {0, 1}

\* the vectors of n coefficients: every vector over DomValues when n <= 4,
\* the zero vector, the unit vectors and the vector of ones when n is larger
FftVectors(n) ==
    IF n <= 4 THEN {Tup(v) : v \in SeqsOf(DomValues, n)}
    ELSE {Tup([i \in 1 .. n |-> 0]), Tup([i \in 1 .. n |-> 1])}
         \cup {Tup([i \in 1 .. n |-> IF i = k THEN 1 ELSE 0]) : k \in 1 .. n}

FftInit ==
    /\ \E e \in 0 .. MaxFftExp, log_cpus \in 0 .. MaxLogCpus :
         \E v \in FftVectors(2 ^ e) :
            dom_in = [a |-> v, b |-> <<>>, log_cpus |-> log_cpus]
    /\ dom_a = NoDomain
    /\ dom_b = NoDomain
    /\ dom_ops = <<>>
    /\ dom_trail = <<>>

\* EvaluationDomain::from_coeffs(v.clone())
FromCoeffs ==
    /\ dom_a = NoDomain
    /\ dom_a' = from_coeffs(dom_in.a)
    /\ UNCHANGED <<dom_in, dom_b, dom_ops, dom_trail>>
    /\ UNCHANGED beside_dom

\* the domain can take one more transform
CanTransform ==
    /\ dom_a # NoDomain
    /\ dom_a.err = "none"
    /\ Len(dom_ops) < MaxOps

\* a transform of the domain, logged with the coefficients it started from
Transformed(op, d) ==
    /\ dom_a' = d
    /\ dom_ops' = Append(dom_ops, op)
    /\ dom_trail' = Append(dom_trail, dom_a.coeffs)
    /\ UNCHANGED <<dom_in, dom_b>>
    /\ UNCHANGED beside_dom

\* domain.fft(&worker)
Fft == CanTransform /\ Transformed("fft", fft(dom_a, dom_in.log_cpus))

\* domain.ifft(&worker)
Ifft == CanTransform /\ Transformed("ifft", ifft(dom_a, dom_in.log_cpus))

\* domain.coset_fft(&worker)
CosetFft == CanTransform /\ Transformed("coset_fft", coset_fft(dom_a, dom_in.log_cpus))

\* domain.icoset_fft(&worker)
IcosetFft == CanTransform /\ Transformed("icoset_fft", icoset_fft(dom_a, dom_in.log_cpus))

(***************************************************************************)
(* parallel_fft_consistency: the same coefficients under parallel_fft and  *)
(* under serial_fft.                                                       *)
(***************************************************************************)
ConsistencyInit ==
    /\ \E log_d \in 0 .. MaxFftExp :
         \E log_cpus \in 0 .. log_d, v \in FftVectors(2 ^ log_d) :
            dom_in = [a |-> v, b |-> <<>>, log_cpus |-> log_cpus]
    /\ dom_a = NoDomain
    /\ dom_b = NoDomain
    /\ dom_ops = <<>>
    /\ dom_trail = <<>>

\* v1 = from_coeffs(v), v2 = from_coeffs(v1.coeffs.clone())
ConsistencyFromCoeffs ==
    /\ dom_a = NoDomain
    /\ dom_a' = from_coeffs(dom_in.a)
    /\ dom_b' = from_coeffs(from_coeffs(dom_in.a).coeffs)
    /\ UNCHANGED <<dom_in, dom_ops, dom_trail>>
    /\ UNCHANGED beside_dom

\* the number of times op was applied
RECURSIVE Applied(_, _)
Applied(ops, op) ==
    IF ops = <<>> THEN 0
    ELSE (IF Head(ops) = op THEN 1 ELSE 0) + Applied(Tail(ops), op)

\* parallel_fft(&mut v1.coeffs, &worker, &v1.omega, log_d, log_cpus)
ParallelFft ==
    /\ dom_a # NoDomain
    /\ Applied(dom_ops, "parallel_fft") < MaxOps
    /\ dom_a' = [dom_a EXCEPT !.coeffs =
                    parallel_fft(dom_a.coeffs, dom_a.omega, dom_a.exp, dom_in.log_cpus)]
    /\ dom_ops' = Append(dom_ops, "parallel_fft")
    /\ UNCHANGED <<dom_in, dom_b, dom_trail>>
    /\ UNCHANGED beside_dom

\* serial_fft(&mut v2.coeffs, &v2.omega, log_d)
SerialFft ==
    /\ dom_b # NoDomain
    /\ Applied(dom_ops, "serial_fft") < MaxOps
    /\ dom_b' = [dom_b EXCEPT !.coeffs = serial_fft(dom_b.coeffs, dom_b.omega, dom_b.exp)]
    /\ dom_ops' = Append(dom_ops, "serial_fft")
    /\ UNCHANGED <<dom_in, dom_a, dom_trail>>
    /\ UNCHANGED beside_dom

(***************************************************************************)
(* polynomial_arith: the product of two polynomials through the domain.    *)
(***************************************************************************)
\* largest number of coefficients of each polynomial
MaxCoeffs == 2
\* the coefficients of the polynomials
PolyValues == {0, 1, 64512}

\* Vec::resize(n, zero)
resize(v, n) == Tup([i \in 1 .. n |-> IF i <= Len(v) THEN v[i] ELSE 0])

PolyInit ==
    /\ \E coeffs_a \in 0 .. MaxCoeffs, coeffs_b \in 0 .. MaxCoeffs,
          log_cpus \in 0 .. MaxLogCpus :
         \E a \in SeqsOf(PolyValues, coeffs_a), b \in SeqsOf(PolyValues, coeffs_b) :
            dom_in = [a |-> Tup(a), b |-> Tup(b), log_cpus |-> log_cpus]
    /\ dom_a = NoDomain
    /\ dom_b = NoDomain
    /\ dom_ops = <<>>
    /\ dom_trail = <<>>

\* the step of test_mul done, with the domains it leaves
PolyStep(after, op, a, b) ==
    /\ dom_ops = after
    /\ dom_a' = a
    /\ dom_b' = b
    /\ dom_ops' = Append(dom_ops, op)
    /\ UNCHANGED <<dom_in, dom_trail>>
    /\ UNCHANGED beside_dom

\* a.resize, b.resize, from_coeffs(a).unwrap(), from_coeffs(b).unwrap()
PolyFromCoeffs ==
    \E n \in {Len(dom_in.a) + Len(dom_in.b)} :
        PolyStep(<<>>, "from_coeffs",
                 from_coeffs(resize(dom_in.a, n)), from_coeffs(resize(dom_in.b, n)))

\* a.fft(&worker)
PolyFftA ==
    /\ dom_a.err = "none" /\ dom_b.err = "none"
    /\ PolyStep(<<"from_coeffs">>, "a.fft", fft(dom_a, dom_in.log_cpus), dom_b)

\* b.fft(&worker)
PolyFftB ==
    PolyStep(<<"from_coeffs", "a.fft">>, "b.fft", dom_a, fft(dom_b, dom_in.log_cpus))

\* a.mul_assign(&worker, &b)
PolyMulAssign ==
    PolyStep(<<"from_coeffs", "a.fft", "b.fft">>, "a.mul_assign",
             mul_assign(dom_a, dom_b), dom_b)

\* a.ifft(&worker)
PolyIfft ==
    PolyStep(<<"from_coeffs", "a.fft", "b.fft", "a.mul_assign">>, "a.ifft",
             ifft(dom_a, dom_in.log_cpus), dom_b)

(***************************************************************************)
(* from_coeffs on vectors of every small length and of the lengths around  *)
(* 2^(S-1) and 2^S.                                                        *)
(***************************************************************************)
\* largest of the small lengths
MaxLen == 5

\* the long vectors: n coefficients 1, 2, 3, 1, ..
LongVector(n) == Tup([i \in 1 .. n |-> 1 + (i % 3)])

FromCoeffsInit ==
    /\ \/ \E n \in 0 .. MaxLen : \E v \in SeqsOf(DomValues, n) :
            dom_in = [a |-> Tup(v), b |-> <<>>, log_cpus |-> 0]
       \/ \E n \in {2 ^ (FrS - 1) - 1, 2 ^ (FrS - 1), 2 ^ (FrS - 1) + 1,
                    2 ^ FrS - 1, 2 ^ FrS, 2 ^ FrS + 1} :
            dom_in = [a |-> LongVector(n), b |-> <<>>, log_cpus |-> 0]
    /\ dom_a = NoDomain
    /\ dom_b = NoDomain
    /\ dom_ops = <<>>
    /\ dom_trail = <<>>

(***************************************************************************)
(* curve_io.rs and the read and write of kw15.rs.  A writer is the bytes   *)
(* written so far; a reader returns [err, val, rest], rest the bytes left. *)
(***************************************************************************)
\* UncompressedEncoding::from_uncompressed_unchecked: [some, val]
from_uncompressed_unchecked(repr) ==
    IF repr[1] * 256 + repr[2] < FrModulus
    THEN [some |-> TRUE, val |-> repr[1] * 256 + repr[2]]
    ELSE [some |-> FALSE, val |-> identity]

\* UncompressedEncoding::from_uncompressed: every encoded element is in the group
from_uncompressed(repr) == from_uncompressed_unchecked(repr)

\* write_u64::<BigEndian> of a length below 2^32
write_u64(writer, n) ==
    writer \o Tup([i \in 1 .. 8 |-> IF i <= 4 THEN 0 ELSE (n \div (256 ^ (8 - i))) % 256])

\* read_u64::<BigEndian>; a value of 2^31 or more is reported as 2^31 - 1,
\* beyond the length of any buffer
read_u64(reader) ==
    IF Len(reader) < 8
    THEN [err |-> "UnexpectedEof", val |-> 0, rest |-> reader]
    ELSE IF \E i \in 1 .. 4 : reader[i] # 0 \/ reader[5] >= 128
    THEN [err |-> "none", val |-> 2147483647, rest |-> SubSeq(reader, 9, Len(reader))]
    ELSE [err |-> "none",
          val |-> ((reader[5] * 256 + reader[6]) * 256 + reader[7]) * 256 + reader[8],
          rest |-> SubSeq(reader, 9, Len(reader))]

write_group_uncompressed(writer, e) == writer \o to_uncompressed(e)

RECURSIVE WriteEach(_, _)
WriteEach(writer, es) ==
    IF es = <<>> THEN writer
    ELSE WriteEach(write_group_uncompressed(writer, Head(es)), Tail(es))

write_groups_uncompressed(writer, es) == WriteEach(write_u64(writer, Len(es)), es)

read_group_uncompressed(reader, checked, allow_zero) ==
    LET affine == IF checked THEN from_uncompressed(SubSeq(reader, 1, 2))
                  ELSE from_uncompressed_unchecked(SubSeq(reader, 1, 2))
        rest == SubSeq(reader, 3, Len(reader))
    IN  IF Len(reader) < 2
        THEN [err |-> "UnexpectedEof", val |-> identity, rest |-> reader]
        ELSE IF ~affine.some
        THEN [err |-> "invalid group", val |-> identity, rest |-> rest]
        ELSE IF ~allow_zero /\ affine.val = identity
        THEN [err |-> "point at infinity", val |-> identity, rest |-> rest]
        ELSE [err |-> "none", val |-> affine.val, rest |-> rest]

\* the loop of read_groups_uncompressed with n elements to go
RECURSIVE ReadEach(_, _, _, _, _)
ReadEach(reader, n, groups, checked, allow_zero) ==
    IF n = 0 THEN [err |-> "none", val |-> groups, rest |-> reader]
    ELSE IF read_group_uncompressed(reader, checked, allow_zero).err # "none"
    THEN [err |-> read_group_uncompressed(reader, checked, allow_zero).err,
          val |-> <<>>, rest |-> reader]
    ELSE ReadEach(read_group_uncompressed(reader, checked, allow_zero).rest, n - 1,
                  Append(groups, read_group_uncompressed(reader, checked, allow_zero).val),
                  checked, allow_zero)

\* the loop ends at the first element missing from the buffer
read_groups_uncompressed(reader, checked, allow_zero) ==
    IF read_u64(reader).err # "none"
    THEN [err |-> read_u64(reader).err, val |-> <<>>, rest |-> reader]
    ELSE IF read_u64(reader).val > Len(reader)
    THEN ReadEach(read_u64(reader).rest, Len(reader), <<>>, checked, allow_zero)
    ELSE ReadEach(read_u64(reader).rest, read_u64(reader).val, <<>>, checked, allow_zero)

\* ProvingKey::write, ProvingKey::read
ProvingKeyWrite(pk, writer) == write_groups_uncompressed(writer, pk.p_g1)

ProvingKeyRead(reader) ==
    LET p_g1 == read_groups_uncompressed(reader, FALSE, TRUE)
    IN  IF p_g1.err # "none" THEN [err |-> p_g1.err]
        ELSE [err |-> "none", v |-> [p_g1 |-> p_g1.val]]

\* VerifyingKey::write with a bug: a_g2 is written first
VerifyingKeyWrite_a_g2_first(vk, writer) ==
    write_groups_uncompressed(write_group_uncompressed(writer, vk.a_g2), vk.c_g2)

\* VerifyingKey::write, VerifyingKey::read
VerifyingKeyWrite(vk, writer) ==
    write_group_uncompressed(write_groups_uncompressed(writer, vk.c_g2), vk.a_g2)

VerifyingKeyRead(reader) ==
    LET c_g2 == read_groups_uncompressed(reader, FALSE, TRUE)
        a_g2 == read_group_uncompressed(c_g2.rest, FALSE, TRUE)
    IN  IF c_g2.err # "none" THEN [err |-> c_g2.err]
        ELSE IF a_g2.err # "none" THEN [err |-> a_g2.err]
        ELSE [err |-> "none", v |-> [c_g2 |-> c_g2.val, a_g2 |-> a_g2.val]]

\* Proof::write, Proof::read
ProofWrite(proof, writer) == write_group_uncompressed(writer, proof.pi_g1)

ProofRead(reader) ==
    LET pi_g1 == read_group_uncompressed(reader, FALSE, TRUE)
    IN  IF pi_g1.err # "none" THEN [err |-> pi_g1.err]
        ELSE [err |-> "none", v |-> [pi_g1 |-> pi_g1.val]]

(***************************************************************************)
(* random_serde_test: a key or a proof written to a buffer and read back.  *)
(***************************************************************************)
\* nothing written or read
NoSer == [kind |-> "none"]

\* largest number of points of a vector
MaxPoints == 2
\* the group elements of the keys and proofs
SerPoints == {0, 1, 256, 64512}

SerInit ==
    /\ \E n \in 0 .. MaxPoints : \E es \in SeqsOf(SerPoints, n), e \in SerPoints :
          \/ ser_x = [kind |-> "ProvingKey", v |-> [p_g1 |-> Tup(es)]]
          \/ ser_x = [kind |-> "VerifyingKey", v |-> [c_g2 |-> Tup(es), a_g2 |-> e]]
          \/ ser_x = [kind |-> "Proof", v |-> [pi_g1 |-> e]]
    /\ ser_bytes = <<>>
    /\ ser_y = NoSer
    /\ ser_phase = "new"

\* x.write(&mut ser).unwrap()
Written(kind, bytes) ==
    /\ ser_phase = "new"
    /\ ser_x.kind = kind
    /\ ser_bytes' = bytes
    /\ ser_phase' = "written"
    /\ UNCHANGED <<ser_x, ser_y>>
    /\ UNCHANGED beside_ser

\* X::read(&ser[..])
ReadBack(kind, r) ==
    /\ ser_phase = "written"
    /\ ser_x.kind = kind
    /\ ser_y' = r
    /\ ser_phase' = "read"
    /\ UNCHANGED <<ser_x, ser_bytes>>
    /\ UNCHANGED beside_ser

PkWrite == ser_x.kind = "ProvingKey" /\ Written("ProvingKey", ProvingKeyWrite(ser_x.v, <<>>))

PkRead == ReadBack("ProvingKey", ProvingKeyRead(ser_bytes))

VkWrite == ser_x.kind = "VerifyingKey" /\ Written("VerifyingKey", VerifyingKeyWrite(ser_x.v, <<>>))

VkRead == ReadBack("VerifyingKey", VerifyingKeyRead(ser_bytes))

PfWrite == ser_x.kind = "Proof" /\ Written("Proof", ProofWrite(ser_x.v, <<>>))

PfRead == ReadBack("Proof", ProofRead(ser_bytes))

(***************************************************************************)
(* trace.rs: the timers.  IS_ON is thread local, NUM_INDENT is global; a   *)
(* thread holds the TimerInfo values of the timers it started and has not  *)
(* ended.  An expansion of a macro is one step.                            *)
(***************************************************************************)
\* the number of threads, the largest number of timers started
TraceThreads == 2
MaxTimers == 3
\* the messages of the timers
TraceMsgs == {"key_gen", "prove"}

\* on(): the value returned and the IS_ON of thread t afterwards
on(t) == IF is_on[t] = "None" THEN trace_env ELSE is_on[t] = "Some(true)"

IsOnAfter(t) == [is_on EXCEPT ![t] = IF on(t) THEN "Some(true)" ELSE "Some(false)"]

\* compute_indent: the indent as its number of pad characters
compute_indent(indent_amount) == indent_amount

TraceInit ==
    /\ trace_env \in BOOLEAN
    /\ is_on = Tup([t \in 1 .. TraceThreads |-> "None"])
    /\ num_indent = 0
    /\ stdout = <<>>
    /\ timers = Tup([t \in 1 .. TraceThreads |-> <<>>])

\* the number of timers started and not ended
RECURSIVE Open(_)
Open(ts) == IF ts = <<>> THEN 0 ELSE Len(Head(ts)) + Open(Tail(ts))

\* start_timer!(msg) on thread t
StartTimer(t) ==
    /\ Open(timers) < MaxTimers
    /\ num_indent < MaxTimers
    /\ Len(stdout) < 2 * MaxTimers
    /\ \E msg \in TraceMsgs :
         /\ stdout' = IF on(t)
                      THEN Append(stdout, [info |-> "Start:", msg |-> msg,
                                           indent |-> compute_indent(2 * num_indent)])
                      ELSE stdout
         /\ timers' = [timers EXCEPT ![t] = Append(@, [msg |-> msg])]
    /\ is_on' = IsOnAfter(t)
    /\ num_indent' = num_indent + 1
    /\ UNCHANGED trace_env
    /\ UNCHANGED beside_trace

\* end_timer!(time) on thread t, for the timer it started last
EndTimer(t) ==
    /\ timers[t] # <<>>
    /\ timers' = [timers EXCEPT ![t] = SubSeq(@, 1, Len(@) - 1)]
    /\ is_on' = IsOnAfter(t)
    /\ IF on(t)
       THEN /\ num_indent' = num_indent - 1
            /\ stdout' = Append(stdout, [info |-> "End:",
                                         msg |-> timers[t][Len(timers[t])].msg,
                                         indent |-> compute_indent(2 * (num_indent - 1))])
       ELSE UNCHANGED <<num_indent, stdout>>
    /\ UNCHANGED trace_env
    /\ UNCHANGED beside_trace

\* no cp_link run
NoCp == [k |-> [generators |-> <<>>, blind_generator |-> identity], js |-> <<>>,
         vectors |-> <<>>, rands_1 |-> <<>>, rands_2 |-> <<>>,
         cmts_1 |-> <<>>, cmts_2 |-> <<>>]

\* largest length of the committed vectors, largest number of pairs
MaxVecLen == 1
MaxPairs == 1

\* the commit keys: K is one of two keys, J_i differs from K and from J_j
CpKeys(k_len) ==
    { CommitKeyNew(Tup([j \in 1 .. k_len |-> 1 + j]), 11),
      CommitKeyNew(Tup([j \in 1 .. k_len |-> 2]), 1) }

CpJs(k_len, pairs) ==
    Tup([i \in 1 .. pairs |-> CommitKeyNew(Tup([j \in 1 .. k_len |-> 3 * i + j + 2]), 20 + i)])

\* Worker::scope: the chunk of each task for elements and a number of cpus
WorkerChunk(elements, cpus) == IF elements < cpus THEN 1 ELSE elements \div cpus

CpInit ==
    /\ \E k_len \in 0 .. MaxVecLen, pairs \in 0 .. MaxPairs :
         \E k \in CpKeys(k_len) :
            cp = [NoCp EXCEPT !.k = k, !.js = CpJs(k_len, pairs)]
    /\ matrix = MatrixNew(0, 0)
    /\ keygen = NoKeyGen
    /\ keys = NoKeys
    /\ statement = NoStatement
    /\ pf = NoPf
    /\ ok = "none"
    /\ kw_phase = "new"

\* cp_link::key_gen: the matrix, then kw15::key_gen up to its scope
CpKeyGenStart ==
    /\ kw_phase = "new"
    /\ \E r \in {cp_link_matrix(cp.k, cp.js)} :
         /\ matrix' = r.m
         /\ IF r.err # "none"
            THEN kw_phase' = "panic" /\ UNCHANGED keygen
            ELSE /\ kw_phase' = "keygen"
                 /\ \E k \in SeqsOf(KwScalars, r.m.num_cmts), a \in KwScalars,
                       log_cpus \in 0 .. MaxLogCpus :
                      keygen' = KeyGenScope(r.m, Tup(k), a,
                                    WorkerChunk(Len(r.m.nonzero_entries), 2 ^ log_cpus))
    /\ UNCHANGED <<keys, statement, pf, ok, cp>>
    /\ UNCHANGED beside_cp

\* the statement of the prover (vectors, blinders and the commitments of
\* the vectors under K and under J_i) and cp_link::prove
CpProve ==
    /\ kw_phase = "keys"
    /\ \E vectors \in SeqsOf(SeqsOf(KwWits, Len(cp.k.generators)), Len(cp.js)),
          rands_1 \in SeqsOf(KwScalars, Len(cp.js)),
          rands_2 \in SeqsOf(KwScalars, Len(cp.js)) :
         \E r \in {cp_link_prove(keys.pk, Tup([i \in 1 .. Len(cp.js) |-> Tup(vectors[i])]),
                                 Tup(rands_1), Tup(rands_2))} :
            /\ cp' = [cp EXCEPT
                        !.vectors = Tup([i \in 1 .. Len(cp.js) |-> Tup(vectors[i])]),
                        !.rands_1 = Tup(rands_1),
                        !.rands_2 = Tup(rands_2),
                        !.cmts_1 = Tup([i \in 1 .. Len(cp.js) |->
                                       commit(cp.k, Tup(vectors[i]), rands_1[i]).val]),
                        !.cmts_2 = Tup([i \in 1 .. Len(cp.js) |->
                                       commit(cp.js[i], Tup(vectors[i]), rands_2[i]).val])]
            /\ pf' = r.pf
            /\ kw_phase' = IF r.err = "none" THEN "proved" ELSE "panic"
    /\ UNCHANGED <<matrix, keygen, keys, statement, ok>>
    /\ UNCHANGED beside_cp

\* cp_link::verify
CpVerify ==
    /\ kw_phase = "proved"
    /\ cp # NoCp
    /\ ok' = cp_link_verify(keys.vk, cp.cmts_1, cp.cmts_2, pf)
    /\ kw_phase' = "verified"
    /\ UNCHANGED <<matrix, keygen, keys, statement, pf, cp>>
    /\ UNCHANGED beside_cp


(***************************************************************************)
(* domain.rs: one call of parallel_fft at the level of its tasks.  A task  *)
(* of the first scope is <<1, j>>, one of the second <<2, idx>>; a memory   *)
(* location is <<"a", 0, i>> or <<"tmp", j, i>>.  reads and writes hold the *)
(* accesses <<task, location>> made so far.                                *)
(***************************************************************************)
NoPar == [a0 |-> <<>>, a |-> <<>>, omega |-> 0, log_n |-> 0, log_cpus |-> 0,
          tmp |-> <<>>, scope |-> "idle", pc1 |-> <<>>, elt |-> <<>>,
          chunk |-> 0, pos2 |-> <<>>, joined |-> {}, reads |-> {}, writes |-> {}]

\* the state at the first worker.scope: tmp is zero, every task is spawned
ParCall(a, omega, log_n, log_cpus) ==
    [a0 |-> a, a |-> a, omega |-> omega, log_n |-> log_n, log_cpus |-> log_cpus,
     tmp |-> Tup([j \in 1 .. 2 ^ log_cpus |-> Zeros(2 ^ (log_n - log_cpus))]),
     scope |-> "first",
     pc1 |-> Tup([j \in 1 .. 2 ^ log_cpus |-> 0]),
     elt |-> Tup([j \in 1 .. 2 ^ log_cpus |-> 1]),
     chunk |-> 0, pos2 |-> <<>>, joined |-> {}, reads |-> {}, writes |-> {}]

ParInit ==
    \E log_n \in 1 .. MaxFftExp :
      \E log_cpus \in 0 .. (IF log_n < MaxLogCpus THEN log_n ELSE MaxLogCpus) :
        \E a \in FftVectors(2 ^ log_n) :
           par = ParCall(a, from_coeffs(a).omega, log_n, log_cpus)

\* task j of the first scope has run to its end
FirstDone(p, j) == p.pc1[j + 1] > 2 ^ (p.log_n - p.log_cpus)

\* the indices of a that task j reads for element i of its row
ShuffleIdx(p, i) ==
    {(i + s * (2 ^ (p.log_n - p.log_cpus))) % (2 ^ p.log_n) : s \in 0 .. 2 ^ p.log_cpus - 1}

\* element i of the row of task j: the inner loop over s, elt multiplied by
\* omega_step after each term
ShuffleSum(p, j, i) ==
    SumSeq(Tup([s1 \in 1 .. 2 ^ p.log_cpus |->
        FMul(p.a[((i + (s1 - 1) * (2 ^ (p.log_n - p.log_cpus))) % (2 ^ p.log_n)) + 1],
             FMul(p.elt[j + 1],
                  FPow(FPow(p.omega, j * (2 ^ (p.log_n - p.log_cpus))), s1 - 1)))]))

\* the outer loop with a bug: every task accumulates into row 0 of tmp
ShuffleStepIntoRowZero(p, j, i) ==
    [p EXCEPT
       !.tmp[1][i + 1] = FAdd(@, ShuffleSum(p, j, i)),
       !.elt[j + 1] = FMul(FMul(@, FPow(FPow(p.omega, j * (2 ^ (p.log_n - p.log_cpus))),
                                        2 ^ p.log_cpus)),
                           FPow(p.omega, j)),
       !.pc1[j + 1] = i + 1,
       !.reads = @ \cup {<<<<1, j>>, <<"a", 0, idx>>>> : idx \in ShuffleIdx(p, i)}
                   \cup {<<<<1, j>>, <<"tmp", 0, i>>>>},
       !.writes = @ \cup {<<<<1, j>>, <<"tmp", 0, i>>>>}]

\* one iteration of the outer loop of task j: tmp[j][i] and elt
ShuffleStep(p, j, i) ==
    [p EXCEPT
       !.tmp[j + 1][i + 1] = FAdd(@, ShuffleSum(p, j, i)),
       !.elt[j + 1] = FMul(FMul(@, FPow(FPow(p.omega, j * (2 ^ (p.log_n - p.log_cpus))),
                                        2 ^ p.log_cpus)),
                           FPow(p.omega, j)),
       !.pc1[j + 1] = i + 1,
       !.reads = @ \cup {<<<<1, j>>, <<"a", 0, idx>>>> : idx \in ShuffleIdx(p, i)}
                   \cup {<<<<1, j>>, <<"tmp", j, i>>>>},
       !.writes = @ \cup {<<<<1, j>>, <<"tmp", j, i>>>>}]

\* the sub-FFT of task j on its row
SubFftStep(p, j) ==
    [p EXCEPT
       !.tmp[j + 1] = serial_fft(@, FPow(p.omega, 2 ^ p.log_cpus), p.log_n - p.log_cpus),
       !.pc1[j + 1] = @ + 1,
       !.reads = @ \cup {<<<<1, j>>, <<"tmp", j, i>>>> :
                            i \in 0 .. 2 ^ (p.log_n - p.log_cpus) - 1},
       !.writes = @ \cup {<<<<1, j>>, <<"tmp", j, i>>>> :
                             i \in 0 .. 2 ^ (p.log_n - p.log_cpus) - 1}]

\* a task of the first scope takes a step
FirstScopeTask ==
    /\ par.scope \in {"first", "second"}
    /\ \E j \in 0 .. 2 ^ par.log_cpus - 1 :
          /\ ~FirstDone(par, j)
          /\ par' = IF par.pc1[j + 1] < 2 ^ (par.log_n - par.log_cpus)
                    THEN ShuffleStep(par, j, par.pc1[j + 1])
                    ELSE SubFftStep(par, j)
    /\ UNCHANGED beside_par

\* Worker::scope returns when every task spawned in it has finished
ScopeJoined(p) == \A j \in 0 .. 2 ^ p.log_cpus - 1 : FirstDone(p, j)

\* the tasks of the second scope: one per chunk of a
SecondTasks(p) == 0 .. ((Len(p.a) + p.chunk - 1) \div p.chunk) - 1

\* the first scope returns and the second spawns a task per chunk of a
SecondScope ==
    /\ par.scope = "first"
    /\ ScopeJoined(par)
    /\ \E chunk \in {WorkerChunk(Len(par.a), 2 ^ par.log_cpus)} :
          par' = [par EXCEPT
                    !.scope = "second",
                    !.chunk = chunk,
                    !.pos2 = Tup([c \in 1 .. (Len(par.a) + chunk - 1) \div chunk |-> 0]),
                    !.joined = {j \in 0 .. 2 ^ par.log_cpus - 1 : FirstDone(par, j)}]
    /\ UNCHANGED beside_par

\* task c of the second scope has copied its chunk
SecondDone(p, c) ==
    p.pos2[c + 1] >= p.chunk \/ c * p.chunk + p.pos2[c + 1] >= Len(p.a)

\* one iteration of the loop of task c: *a = tmp[idx & mask][idx >> log_cpus]
CopyStep(p, c, idx) ==
    [p EXCEPT
       !.a[idx + 1] = p.tmp[(idx % (2 ^ p.log_cpus)) + 1][(idx \div (2 ^ p.log_cpus)) + 1],
       !.pos2[c + 1] = @ + 1,
       !.reads = @ \cup {<<<<2, c>>, <<"tmp", idx % (2 ^ p.log_cpus),
                                       idx \div (2 ^ p.log_cpus)>>>>},
       !.writes = @ \cup {<<<<2, c>>, <<"a", 0, idx>>>>}]

\* a task of the second scope takes a step
SecondScopeTask ==
    /\ par.scope = "second"
    /\ \E c \in SecondTasks(par) :
          /\ ~SecondDone(par, c)
          /\ par' = CopyStep(par, c, c * par.chunk + par.pos2[c + 1])
    /\ UNCHANGED beside_par

\* the second scope returns, and parallel_fft
ParReturn ==
    /\ par.scope = "second"
    /\ \A c \in SecondTasks(par) : SecondDone(par, c)
    /\ ScopeJoined(par)
    /\ par' = [par EXCEPT !.scope = "done"]
    /\ UNCHANGED beside_par


\* the Mirage part when the run is one of KW15, and the other way round
MirageIdle ==
    /\ circuit = BigCircuit
    /\ env = TestEnv(BigCircuit)
    /\ origin = [circuit |-> BigCircuit, td |-> TestTrapdoor, tamper |-> <<0, 0>>]
    /\ params = [err |-> "none"]
    /\ prover = ProvingAssignmentNew(<<>>)
    /\ ip = 0
    /\ phase = "idle"
    /\ tasks = NoTasks
    /\ answers = NoTasks
    /\ result = Idle
    /\ coins = <<>>
    /\ vin = NoVin
    /\ vres = "none"

KwIdle ==
    /\ matrix = MatrixNew(0, 0)
    /\ keygen = NoKeyGen
    /\ keys = NoKeys
    /\ statement = NoStatement
    /\ pf = NoPf
    /\ ok = "none"
    /\ kw_phase = "idle"

CpIdle == cp = NoCp

DomIdle ==
    /\ dom_in = NoDomIn
    /\ dom_a = NoDomain
    /\ dom_b = NoDomain
    /\ dom_ops = <<>>
    /\ dom_trail = <<>>

SerIdle ==
    /\ ser_x = NoSer
    /\ ser_bytes = <<>>
    /\ ser_y = NoSer
    /\ ser_phase = "idle"

TraceIdle ==
    /\ trace_env = FALSE
    /\ is_on = <<>>
    /\ num_indent = 0
    /\ stdout = <<>>
    /\ timers = <<>>

ParIdle == par = NoPar

vars == <<mirage_vars, kw_vars, cp_vars, dom_vars, ser_vars, trace_vars, par_vars>>

Init == MirageInit /\ KwIdle /\ CpIdle /\ DomIdle /\ SerIdle /\ TraceIdle /\ ParIdle

Next ==
    \/ CreateProofStart
    \/ Alloc
    \/ AllocInput
    \/ Enforce
    \/ AllocRandom
    \/ EndAuxBlock
    \/ StartMsms
    \/ MsmDone
    \/ WaitMsms
    \/ Verify

\* one create_proof call and one verify_proof call
Spec == Init /\ [][Next]_vars

InitKW15 == KwInit /\ MirageIdle /\ CpIdle /\ DomIdle /\ SerIdle /\ TraceIdle /\ ParIdle

NextKW15 ==
    \/ AddEntry
    \/ KeyGenStart
    \/ KeyGenTask
    \/ KeyGenReturn
    \/ Prove
    \/ KwVerify

\* one run of KW15
SpecKW15 == InitKW15 /\ [][NextKW15]_vars

InitCpLink == CpInit /\ MirageIdle /\ DomIdle /\ SerIdle /\ TraceIdle /\ ParIdle

NextCpLink ==
    \/ CpKeyGenStart
    \/ KeyGenTask
    \/ KeyGenReturn
    \/ CpProve
    \/ CpVerify

\* one run of cp_link
SpecCpLink == InitCpLink /\ [][NextCpLink]_vars

InitFft == FftInit /\ MirageIdle /\ KwIdle /\ CpIdle /\ SerIdle /\ TraceIdle /\ ParIdle

NextFft ==
    \/ FromCoeffs
    \/ Fft
    \/ Ifft
    \/ CosetFft
    \/ IcosetFft

\* one domain under the transforms of fft_composition
SpecFft == InitFft /\ [][NextFft]_vars

InitFftConsistency == ConsistencyInit /\ MirageIdle /\ KwIdle /\ CpIdle /\ SerIdle /\ TraceIdle /\ ParIdle

NextFftConsistency ==
    \/ ConsistencyFromCoeffs
    \/ ParallelFft
    \/ SerialFft

\* two copies of one domain, one under parallel_fft, one under serial_fft
SpecFftConsistency == InitFftConsistency /\ [][NextFftConsistency]_vars

InitPoly == PolyInit /\ MirageIdle /\ KwIdle /\ CpIdle /\ SerIdle /\ TraceIdle /\ ParIdle

NextPoly ==
    \/ PolyFromCoeffs
    \/ PolyFftA
    \/ PolyFftB
    \/ PolyMulAssign
    \/ PolyIfft

\* one product of polynomial_arith
SpecPoly == InitPoly /\ [][NextPoly]_vars

InitFromCoeffs == FromCoeffsInit /\ MirageIdle /\ KwIdle /\ CpIdle /\ SerIdle /\ TraceIdle /\ ParIdle

NextFromCoeffs == FromCoeffs

\* one call of from_coeffs
SpecFromCoeffs == InitFromCoeffs /\ [][NextFromCoeffs]_vars

InitSerde == SerInit /\ MirageIdle /\ KwIdle /\ CpIdle /\ DomIdle /\ TraceIdle /\ ParIdle

NextSerde ==
    \/ PkWrite
    \/ PkRead
    \/ VkWrite
    \/ VkRead
    \/ PfWrite
    \/ PfRead

\* one value of random_serde_test written and read back
SpecSerde == InitSerde /\ [][NextSerde]_vars

InitTrace == TraceInit /\ MirageIdle /\ KwIdle /\ CpIdle /\ DomIdle /\ SerIdle /\ ParIdle

NextTrace ==
    \/ \E t \in 1 .. TraceThreads : StartTimer(t)
    \/ \E t \in 1 .. TraceThreads : EndTimer(t)

\* threads starting and ending timers
SpecTrace == InitTrace /\ [][NextTrace]_vars

InitParallelFft ==
    ParInit /\ MirageIdle /\ KwIdle /\ CpIdle /\ DomIdle /\ SerIdle /\ TraceIdle

NextParallelFft ==
    \/ FirstScopeTask
    \/ SecondScope
    \/ SecondScopeTask
    \/ ParReturn

\* one call of parallel_fft, its tasks interleaved
SpecParallelFft == InitParallelFft /\ [][NextParallelFft]_vars


(***************************************************************************)
(* Properties.                                                             *)
(***************************************************************************)
\* the parameters are those generate_parameters returned for the circuit
\* proved, with trapdoors that are invertible
HonestParams == origin.circuit = circuit /\ origin.tamper = <<0, 0>>

\* the constraints hold on the assignment: a_i * b_i = c_i on every row
ConstraintsHold ==
    \A i \in 1 .. Len(prover.a) : FMul(prover.a[i], prover.b[i]) = prover.c[i]

HonestlyVerified == phase = "verified" /\ vin.kind = "honest" /\ HonestParams

\* the aux blocks the circuit ends in synthesize
EndedAuxBlocks(c) ==
    LET script == Script(c)
    IN  Cardinality({n \in 1 .. Len(script) : script[n].op = "end_aux_block"})

\* the caller passed one kappa_3 per aux block of the circuit
KappaPerAuxBlock == Len(env.kappa_3s) = EndedAuxBlocks(circuit)

\* synthesize returned Ok and create_proof has returned
SynthesizedAndReturned ==
    phase \in {"returned", "verified"} /\ ip > Len(Script(circuit))

\* C1: completeness of Mirage: under parameters generated for the circuit,
\* create_proof returns a proof for an assignment on which the constraints
\* hold, whatever r, s and kappa_3s (one per aux block), and verify_proof
\* with the prepared verifying key and the public inputs of the statement
\* returns Ok for that proof
C1_Completeness ==
    /\ (SynthesizedAndReturned /\ HonestParams /\ ConstraintsHold /\ KappaPerAuxBlock)
           => result.status = "Ok"
    /\ (HonestlyVerified /\ ConstraintsHold /\ KappaPerAuxBlock) => vres = "Ok"

\* such a proof of the circuit of three aux blocks and two coins is accepted
C1_Witness ==
    /\ HonestlyVerified /\ ConstraintsHold /\ KappaPerAuxBlock
    /\ circuit.name = "Blocks3Coins2"
    /\ Len(vin.proof.ds) = 3 /\ Len(coins) = 2
    /\ env.kappa_3s = <<0, 2, 3>>
    /\ vres = "Ok"

\* the occurrences of an entry kind in a transcript schedule
Count(schedule, kind) == Cardinality({n \in 1 .. Len(schedule) : schedule[n] = kind})

\* verify_proof's arguments have the shape the schedule of the key declares
MatchingShape(v) ==
    /\ Len(v.public_inputs) = Count(v.pvk.transcript, "PublicInput")
    /\ Len(v.pvk.ic) = 1 + Count(v.pvk.transcript, "PublicInput")
                         + Count(v.pvk.transcript, "Coin")
    /\ Len(v.proof.ds) = Count(v.pvk.transcript, "AuxCommit")
    /\ Len(v.pvk.neg_deltas_g2) = Len(v.proof.ds) + 1

\* the scalars c_i in the order of the schedule: the next public input, or
\* the coin derived from the transcript of everything before it
RECURSIVE ScalarsFrom(_, _, _, _, _)
ScalarsFrom(schedule, n, t, inputs, ds) ==
    IF n > Len(schedule) THEN <<>>
    ELSE IF schedule[n] = "PublicInput"
    THEN <<Head(inputs)>>
         \o ScalarsFrom(schedule, n + 1,
                        append_message(t, "input", to_repr(Head(inputs))),
                        Tail(inputs), ds)
    ELSE IF schedule[n] = "Coin"
    THEN <<merlin_rng(t, "random")>>
         \o ScalarsFrom(schedule, n + 1,
                        append_message(t, "input", to_repr(merlin_rng(t, "random"))),
                        inputs, ds)
    ELSE ScalarsFrom(schedule, n + 1,
                     append_message(t, "aux_commit", to_uncompressed(Head(ds))),
                     inputs, Tail(ds))

Scalars(v) ==
    ScalarsFrom(v.pvk.transcript, 1,
                append_message(TranscriptNew("mirage_aozdemir_1"), "input", to_repr(1)),
                v.public_inputs, v.proof.ds)

\* acc = IC[0] + sum of c_i * IC[1 + i]
Acc(ic, c) == FAdd(ic[1], SumSeq(Tup([i \in 1 .. Len(c) |-> FMul(c[i], ic[i + 1])])))

\* e(A, B) * e(acc, -gamma) * e(C, -delta_k) * prod e(D_i, -delta_i)
\*   = e(alpha, beta), in the verifying key vk
PairingEquation(vk, v) ==
    FAdd(FAdd(FAdd(FMul(v.proof.a, v.proof.b),
                   FMul(Acc(v.pvk.ic, Scalars(v)), FNeg(vk.gamma_g2))),
              FMul(v.proof.c, FNeg(vk.deltas_g2[Len(vk.deltas_g2)]))),
         SumSeq(Tup([i \in 1 .. Len(v.proof.ds) |->
                    FMul(v.proof.ds[i], FNeg(vk.deltas_g2[i]))])))
    = FMul(vk.alpha_g1, vk.beta_g2)

\* C2: on arguments of matching shape verify_proof returns Ok exactly when
\* the pairing equation holds for acc = IC[0] + sum c_i * IC[1 + i], c_i the
\* next public input or the transcript-derived coin in the order of the
\* schedule, and Err(InvalidProof) in every other case
C2_AcceptsIffPairingEquation ==
    (phase = "verified" /\ MatchingShape(vin))
        => vres = IF PairingEquation(params.vk, vin) THEN "Ok" ELSE "InvalidProof"

\* a proof with one element changed, of matching shape, is rejected as invalid
C2_Witness ==
    /\ phase = "verified" /\ MatchingShape(vin)
    /\ vin.kind = "proof"
    /\ vin.proof.ds # result.proof.ds
    /\ ~PairingEquation(params.vk, vin)
    /\ vres = "InvalidProof"

\* C4 as stated: when the length of public_inputs differs from the number
\* of PublicInput entries of the schedule, shorter or longer, verify_proof
\* returns Err(InvalidVerifyingKey), neither panicking nor returning Ok
C4_InputsLengthMismatch ==
    (phase = "verified" /\ vin.kind \in {"inputs long", "inputs short"}
       /\ Len(vin.public_inputs) # Count(vin.pvk.transcript, "PublicInput"))
        => vres = "InvalidVerifyingKey"

\* C5 as stated: when pvk.ic or proof.ds is longer or shorter than the
\* schedule declares, verify_proof returns Err(InvalidVerifyingKey) and does
\* not panic
C5_LengthMismatch ==
    (phase = "verified"
       /\ \/ Len(vin.pvk.ic) # 1 + Count(vin.pvk.transcript, "PublicInput")
                                 + Count(vin.pvk.transcript, "Coin")
          \/ Len(vin.proof.ds) # Count(vin.pvk.transcript, "AuxCommit"))
        => vres = "InvalidVerifyingKey"

\* the labels of the messages of a transcript
Labels(t, label) == Cardinality({n \in 1 .. Len(t.log) : t.log[n].label = label})

\* the replay of the verifier agrees with the prover: the same messages,
\* the same fork positions, the same coins
ReplayAgrees(st) ==
    /\ ~st.panic
    /\ st.transcript = prover.transcript
    /\ Labels(st.transcript, "input")
         = 1 + Count(params.vk.transcript, "PublicInput")
             + Count(params.vk.transcript, "Coin")
    /\ Labels(st.transcript, "aux_commit") = Len(result.proof.ds)
    /\ Len(st.transcript.log)
         = Labels(st.transcript, "input") + Labels(st.transcript, "aux_commit")
    /\ st.forks = Tup([i \in 1 .. Len(coins) |-> coins[i].at])
    /\ st.coins = Tup([i \in 1 .. Len(coins) |-> coins[i].value])

\* C6: transcript replay agreement: for a proof of create_proof under
\* parameters whose schedule was recorded from the same circuit, verify_proof
\* appends the same labeled messages as the prover did during synthesis (the
\* initial "input" for 1, one "input" per public input and per coin, one
\* "aux_commit" per D_i) and forks the PRG at the same positions, so every
\* coin it derives is the coin the prover allocated
C6_ReplayAgreement ==
    (phase = "verified" /\ vin.kind = "honest" /\ origin.circuit = circuit)
        => ReplayAgrees(Replay(vin.pvk, vin.proof, vin.public_inputs))

\* the verifier has replayed the transcript of a Coin1 proof: one coin,
\* forked after the commitment to the aux block
C6_Witness ==
    /\ phase = "verified" /\ vin.kind = "honest" /\ origin.circuit = circuit
    /\ circuit.name = "Coin1"
    /\ Len(coins) = 1
    /\ coins[1].at = 2
    /\ Replay(vin.pvk, vin.proof, vin.public_inputs).coins = <<coins[1].value>>

\* the transcript of the first n messages of t
Before(t, n) == [t EXCEPT !.log = SubSeq(@, 1, n)]

\* C7: determinism: what create_proof returns (the proof a, b, c, ds and the
\* openings of the aux blocks) is the same in every run on the same circuit,
\* parameters, r, s and kappa_3s, whatever the order in which the MSM
\* futures complete and the number of threads of the worker: it is what the
\* run on one thread with the futures completing in turn returns; and each
\* coin of alloc_random is a function of the messages appended before it
C7_Determinism ==
    /\ phase \in {"returned", "verified"}
         => result = create_proof(circuit, params, env.r, env.s, env.kappa_3s, 0)
    /\ \A i \in 1 .. Len(coins) :
          coins[i].value = merlin_rng(Before(prover.transcript, coins[i].at), "random")

\* create_proof has returned a proof on a worker of two threads, the futures
\* having completed in some order, for the circuit of two coins
C7_Witness ==
    /\ phase = "returned"
    /\ result.status = "Ok"
    /\ env.log_cpus = 1
    /\ DOMAIN answers = DOMAIN tasks
    /\ Len(coins) = 2
    /\ coins[1].value # coins[2].value

\* one delta of the verifying key is the identity and synthesize has
\* returned Ok
SynthesizedUnderIdentityDelta ==
    /\ phase = "returned"
    /\ origin.tamper # <<0, 0>>
    /\ \E i \in 1 .. Len(params.vk.deltas_g1) :
          params.vk.deltas_g1[i] = 0 \/ params.vk.deltas_g2[i] = 0
    /\ ip > Len(Script(circuit))

\* C8 as stated: if a delta of the verifying key is the identity in G1 or in
\* G2, create_proof on a circuit whose synthesis succeeds returns
\* Err(UnexpectedIdentity)
C8_UnexpectedIdentity ==
    SynthesizedUnderIdentityDelta => result = Failed("UnexpectedIdentity")

\* C8 amended: it returns an error and never a proof: the error is
\* UnexpectedIdentity unless the constraints, pinning rows included, exceed
\* the largest domain of the field, and then PolynomialDegreeTooLarge
C8_ErrorBeforeProof ==
    SynthesizedUnderIdentityDelta
        => result = IF Len(prover.a) > 2 ^ (FrS - 1)
                    THEN Failed("PolynomialDegreeTooLarge")
                    ELSE Failed("UnexpectedIdentity")

\* create_proof has returned UnexpectedIdentity for the circuit of three
\* aux blocks under a key whose second delta in G2 is the identity
C8_Witness ==
    /\ SynthesizedUnderIdentityDelta
    /\ circuit.name = "Blocks3Coins2"
    /\ origin.tamper = <<2, 2>>
    /\ result = Failed("UnexpectedIdentity")

\* synthesize is at a call of alloc or alloc_input whose closure returns
\* Err(AssignmentMissing)
AtMissingAssignment ==
    /\ phase = "synth"
    /\ ip <= Len(Script(circuit))
    /\ Script(circuit)[ip].op \in {"alloc", "alloc_input"}
    /\ Closure(Script(circuit)[ip].f, prover).err = "AssignmentMissing"

\* C9: when the closure given to alloc or alloc_input returns
\* Err(AssignmentMissing), the call leaves the ProvingAssignment as it was
\* (assignments, densities, transcript) and create_proof returns
\* Err(AssignmentMissing), its first error, and no proof
C9_AssignmentMissing ==
    [][AtMissingAssignment
         => /\ prover' = prover
            /\ phase' = "returned"
            /\ result' = Failed("AssignmentMissing")
            /\ result'.proof = NoProof]_vars

\* create_proof has returned AssignmentMissing from an alloc_input whose
\* closure had no value
C9_Witness ==
    /\ phase = "returned"
    /\ circuit.name = "InputOnly"
    /\ result = Failed("AssignmentMissing")
    /\ Script(circuit)[ip].op = "alloc_input"
    /\ Len(prover.input_assignment) = 1

\* C10: KW15 completeness: for a matrix built with add_entry, a witness, its
\* commitments M * w and the keys of key_gen, verify with the prepared
\* verifying key accepts the proof prove returns
C10_KW15Completeness ==
    (kw_phase = "verified" /\ statement.cmts = Commitments(matrix, statement.wits))
        => ok = "true"

\* a proof for a matrix of two entries and non-zero commitments is accepted
C10_Witness ==
    /\ kw_phase = "verified"
    /\ Len(matrix.nonzero_entries) = 2
    /\ \E i \in 1 .. Len(statement.cmts) : statement.cmts[i] # identity
    /\ pf.pi_g1 # identity
    /\ ok = "true"

(***************************************************************************)
(* cp_link                                                                 *)
(***************************************************************************)
\* the commitments of the statement are those of the vectors under K and J_i
CpHonest ==
    /\ Len(cp.vectors) = Len(cp.js)
    /\ \A i \in 1 .. Len(cp.js) :
         /\ cp.cmts_1[i] = commit(cp.k, cp.vectors[i], cp.rands_1[i]).val
         /\ cp.cmts_2[i] = commit(cp.js[i], cp.vectors[i], cp.rands_2[i]).val

\* C11: for vectors X_i, C_i = Commit(K, X_i, r_i1) and D_i = Commit(J_i, X_i,
\* r_i2) with possibly different blinders, cp_link::prove returns a proof
\* and cp_link::verify accepts it against (C_i), (D_i).
C11_CpLinkCompleteness ==
    /\ kw_phase # "panic"
    /\ (kw_phase \in {"proved", "verified"} => CpHonest)
    /\ (kw_phase = "verified" => ok = "true")

C11_Witness ==
    /\ kw_phase = "verified"
    /\ ok = "true"
    /\ Len(cp.js) >= 1
    /\ Len(cp.k.generators) >= 1
    /\ cp.vectors[1][1] # 0
    /\ cp.rands_1 # cp.rands_2

\* C12: the matrix of cp_link::key_gen maps the witness X_i || r_i1 || r_i2
\* of each pair to C_i = Commit(K, X_i, r_i1) on row 2i and to
\* D_i = Commit(J_i, X_i, r_i2) on row 2i + 1.
C12_MatrixEncodesRelation ==
    kw_phase \in {"proved", "verified"} =>
        Commitments(matrix, CpLinkWit(cp.vectors, cp.rands_1, cp.rands_2))
            = CpLinkCmts(cp.cmts_1, cp.cmts_2)

(***************************************************************************)
(* The verifying key of KW15                                               *)
(***************************************************************************)
\* E::G2::generator() of the dummy engine
G2Generator == 1

\* C13: key_gen returns a verifying key with A2 = a * g2 and
\* C2_i = (k_i * a) * g2 for the generator g2 of G2, so A2 is the identity
\* only when a = 0, and there are commitments and a proof that verify rejects.
C13_VerifyingKeyOfGenerator ==
    kw_phase \in {"keys", "proved", "verified"} =>
        /\ keys.vk.a_g2 = FMul(G2Generator, keygen.a)
        /\ keys.vk.c_g2 = Tup([i \in 1 .. Len(keygen.k) |->
                               FMul(G2Generator, FMul(keygen.k[i], keygen.a))])
        /\ (keys.vk.a_g2 = identity <=> keygen.a = 0)
        /\ \E cmts \in SeqsOf({0, 1, 2}, Len(keys.vk.c_g2)), p \in {0, 1, 2} :
              verify(PreparedVerifyingKeyFrom(keys.vk), Tup(cmts), [pi_g1 |-> p]) = "false"

(***************************************************************************)
(* The evaluation domain                                                   *)
(***************************************************************************)
InversePair(first, second) ==
    <<first, second>> \in {<<"fft", "ifft">>, <<"ifft", "fft">>,
                           <<"icoset_fft", "coset_fft">>, <<"coset_fft", "icoset_fft">>}

\* the coefficients of the domain after its i-th transform
CoeffsAfter(i) == IF i = Len(dom_ops) THEN dom_a.coeffs ELSE dom_trail[i + 1]

\* C14: on a vector of power-of-two length accepted by from_coeffs, ifft
\* after fft, fft after ifft, coset_fft after icoset_fft and icoset_fft
\* after coset_fft each return the coefficients of the domain to the vector.
C14_FftRoundTrip ==
    \A i \in 1 .. Len(dom_ops) - 1 :
        InversePair(dom_ops[i], dom_ops[i + 1]) => CoeffsAfter(i + 1) = dom_trail[i]

C14_Witness ==
    /\ dom_ops = <<"icoset_fft", "coset_fft">>
    /\ Len(dom_in.a) = 4
    /\ dom_in.log_cpus = 1
    /\ dom_in.a = <<0, 1, 1, 0>>
    /\ dom_trail[2] # dom_in.a
    /\ dom_a.coeffs = dom_in.a

\* C16: for every input of length 2^log_n, omega a primitive 2^log_n-th root
\* of unity and every log_cpus <= log_n, parallel_fft leaves the input equal,
\* element for element, to what serial_fft leaves.
C16_ParallelFftConsistency ==
    (dom_a # NoDomain /\ Applied(dom_ops, "parallel_fft") = Applied(dom_ops, "serial_fft"))
        => dom_a.coeffs = dom_b.coeffs

C16_Witness ==
    /\ dom_ops = <<"parallel_fft", "serial_fft">>
    /\ Len(dom_in.a) = 4
    /\ dom_in.log_cpus = 1
    /\ dom_in.a = <<0, 1, 0, 0>>
    /\ dom_a.coeffs # dom_in.a
    /\ dom_a.coeffs = dom_b.coeffs

\* coefficient n (from 0) of the product of a and b, term by term
NaiveCoeff(a, b, n) ==
    SumSeq(Tup([i \in 1 .. Len(a) |->
               IF n - (i - 1) >= 0 /\ n - (i - 1) < Len(b)
               THEN FMul(a[i], b[n - (i - 1) + 1])
               ELSE 0]))

\* C15: for polynomials a and b padded to |a| + |b| coefficients, from_coeffs,
\* fft of both, mul_assign and ifft leave on the first |a| + |b| positions
\* the coefficients of the naive product.
C15_PolynomialProduct ==
    (dom_ops # <<>> /\ dom_ops[Len(dom_ops)] = "a.ifft") =>
        \A n \in 1 .. Len(dom_in.a) + Len(dom_in.b) :
            dom_a.coeffs[n] = NaiveCoeff(dom_in.a, dom_in.b, n - 1)

C15_Witness ==
    /\ dom_ops # <<>>
    /\ dom_ops[Len(dom_ops)] = "a.ifft"
    /\ dom_in.a = <<1, 64512>>
    /\ dom_in.b = <<64512, 1>>
    /\ dom_in.log_cpus = 1
    /\ dom_a.coeffs = <<64512, 2, 64512, 0>>

\* the smallest power of two that is at least n
NextPowerOfTwo(n) ==
    CHOOSE m \in {2 ^ i : i \in 0 .. FrS + 1} :
        /\ m >= n
        /\ \A i \in 0 .. FrS + 1 : 2 ^ i >= n => 2 ^ i >= m

\* from_coeffs returned the domain of the vector padded with zeros to m
DomainOfSize(m) ==
    /\ dom_a.err = "none"
    /\ Len(dom_a.coeffs) = m
    /\ 2 ^ dom_a.exp = m
    /\ \A i \in 1 .. m :
          dom_a.coeffs[i] = IF i <= Len(dom_in.a) THEN dom_in.a[i] ELSE 0

\* C17, as stated: from_coeffs(v) succeeds with a domain of size m, the
\* smallest power of two >= |v|, whenever m <= 2^S, and returns
\* PolynomialDegreeTooLarge only if m exceeds 2^S.
C17_SucceedsUpTo2PowS ==
    dom_a # NoDomain =>
        IF NextPowerOfTwo(Len(dom_in.a)) <= 2 ^ FrS
        THEN DomainOfSize(NextPowerOfTwo(Len(dom_in.a)))
        ELSE dom_a.err = "PolynomialDegreeTooLarge"

\* C17, amended: from_coeffs(v) succeeds with a domain of size m, the
\* smallest power of two >= |v|, whenever m < 2^S, and returns
\* PolynomialDegreeTooLarge whenever m >= 2^S.
C17_SucceedsBelow2PowS ==
    dom_a # NoDomain =>
        IF NextPowerOfTwo(Len(dom_in.a)) < 2 ^ FrS
        THEN DomainOfSize(NextPowerOfTwo(Len(dom_in.a)))
        ELSE dom_a.err = "PolynomialDegreeTooLarge"

C17_Witness ==
    /\ Len(dom_in.a) = 2 ^ (FrS - 1) + 1
    /\ dom_a # NoDomain
    /\ dom_a.err = "PolynomialDegreeTooLarge"

(***************************************************************************)
(* Serialization                                                           *)
(***************************************************************************)
\* the bytes from position at on are a u64 big-endian n and n points
VectorAt(bytes, at, n) ==
    /\ Len(bytes) >= at + 7 + 2 * n
    /\ \A i \in 0 .. 6 : bytes[at + i] = 0
    /\ bytes[at + 7] = n

\* the layout of the bytes written for ser_x
SerLayout ==
    /\ ser_x.kind = "ProvingKey" =>
          /\ VectorAt(ser_bytes, 1, Len(ser_x.v.p_g1))
          /\ Len(ser_bytes) = 8 + 2 * Len(ser_x.v.p_g1)
          /\ \A i \in 1 .. Len(ser_x.v.p_g1) :
                SubSeq(ser_bytes, 7 + 2 * i, 8 + 2 * i) = to_uncompressed(ser_x.v.p_g1[i])
    /\ ser_x.kind = "VerifyingKey" =>
          /\ VectorAt(ser_bytes, 1, Len(ser_x.v.c_g2))
          /\ Len(ser_bytes) = 8 + 2 * Len(ser_x.v.c_g2) + 2
          /\ \A i \in 1 .. Len(ser_x.v.c_g2) :
                SubSeq(ser_bytes, 7 + 2 * i, 8 + 2 * i) = to_uncompressed(ser_x.v.c_g2[i])
          /\ SubSeq(ser_bytes, Len(ser_bytes) - 1, Len(ser_bytes)) = to_uncompressed(ser_x.v.a_g2)
    /\ ser_x.kind = "Proof" => ser_bytes = to_uncompressed(ser_x.v.pi_g1)

\* C18: for every ProvingKey, VerifyingKey and Proof x of KW15, identity
\* points included, read of the bytes written by write returns a value equal
\* to x; a vector is a u64 big-endian length followed by that many
\* uncompressed points, the VerifyingKey is the C2 vector followed by A2.
C18_SerdeRoundTrip ==
    /\ ser_phase \in {"written", "read"} => SerLayout
    /\ ser_phase = "read" => (ser_y.err = "none" /\ ser_y.v = ser_x.v)

C18_Witness ==
    /\ ser_phase = "read"
    /\ ser_x.kind = "VerifyingKey"
    /\ ser_x.v = [c_g2 |-> <<identity, 256>>, a_g2 |-> 1]
    /\ ser_bytes = <<0, 0, 0, 0, 0, 0, 0, 2, 0, 0, 1, 0, 0, 1>>
    /\ ser_y.err = "none"
    /\ ser_y.v = ser_x.v

(***************************************************************************)
(* Coins and aux blocks                                                    *)
(***************************************************************************)
\* C19: in every prover run alloc_random is never executed before at least
\* one end_aux_block has completed: in every state of the ProvingAssignment
\* in which a coin has been derived, aux_block_indices is not empty.
C19_CoinAfterAuxBlock ==
    coins # <<>> => prover.aux_block_indices # <<>>

(***************************************************************************)
(* Tracing                                                                 *)
(***************************************************************************)
\* C20: when the environment variable TRACE is not set, start_timer! and
\* end_timer! are no-ops: nothing is printed, and after any sequence of
\* matched start_timer!/end_timer! pairs the global NUM_INDENT has the value
\* it had before.
C20_NoOpsWithoutTrace ==
    ~trace_env =>
        /\ stdout = <<>>
        /\ (\A t \in 1 .. TraceThreads : timers[t] = <<>>) => num_indent = 0

(***************************************************************************)
(* Aux blocks                                                              *)
(***************************************************************************)
\* C21: in every state of the ProvingAssignment aux_block_indices is strictly
\* increasing and each of its values is at most aux_assignment.len(): every
\* recorded aux block is a non-empty range of the aux variables allocated
\* since the previous end_aux_block.
C21_AuxBlockIndicesIncrease ==
    /\ \A b \in 1 .. Len(prover.aux_block_indices) :
          /\ prover.aux_block_indices[b] <= Len(prover.aux_assignment)
          /\ prover.aux_block_indices[b] >
                (IF b = 1 THEN 0 ELSE prover.aux_block_indices[b - 1])

\* the three aux blocks of test_3blocks_2coins are the aux variables 0..1, 2
\* and 3..4 of the ten the circuit allocates
C21_Witness ==
    /\ circuit.name = "Blocks3Coins2"
    /\ prover.aux_block_indices = <<2, 3, 5>>
    /\ Len(prover.aux_assignment) > 5

\* the end_aux_block calls of synthesize that have returned Ok
CompletedEndAuxBlocks ==
    LET script == Script(circuit)
    IN  Cardinality({n \in 1 .. Len(script) :
                        n < ip /\ script[n].op = "end_aux_block"})

\* an end_aux_block call returned an error to synthesize (a panic apart: no
\* one holds the assignment after it)
EndAuxBlockFailed ==
    /\ phase = "returned" /\ ip \in 1 .. Len(Script(circuit))
    /\ result.status = "Err"
    /\ Script(circuit)[ip].op = "end_aux_block"

BuilderCallPanicked ==
    phase = "returned" /\ ip \in 1 .. Len(Script(circuit)) /\ result.status = "panic"

\* a returned proof has one D per AuxCommit entry of the key's schedule, and
\* the key one delta more
DsPerAuxCommit ==
    result.status = "Ok" =>
       /\ Len(result.proof.ds) = Count(params.vk.transcript, "AuxCommit")
       /\ Len(params.vk.deltas_g1) = Len(result.proof.ds) + 1
       /\ Len(params.vk.deltas_g2) = Len(result.proof.ds) + 1

AllocatedInBlock(pa, b) ==
    SubSeq(pa.aux_assignment,
           (IF b = 1 THEN 0 ELSE pa.aux_block_indices[b - 1]) + 1,
           pa.aux_block_indices[b])

\* sum_j values[j] * bases[j]
InnerProduct(values, bases) ==
    SumSeq(Tup([j \in 1 .. Len(values) |-> FMul(values[j], bases[j])]))

\* the positions in the log of the messages under a label, in order
RECURSIVE PositionsFrom(_, _, _)
PositionsFrom(log, label, n) ==
    IF n > Len(log) THEN <<>>
    ELSE IF log[n].label = label THEN <<n>> \o PositionsFrom(log, label, n + 1)
    ELSE PositionsFrom(log, label, n + 1)

\* the positions lo .. hi of the script that hold a call of op, in order
RECURSIVE CallsIn(_, _, _, _)
CallsIn(script, op, lo, hi) ==
    IF lo > hi THEN <<>>
    ELSE IF lo = hi THEN (IF script[lo].op = op THEN <<lo>> ELSE <<>>)
    ELSE CallsIn(script, op, lo, (lo + hi) \div 2)
         \o CallsIn(script, op, (lo + hi) \div 2 + 1, hi)

\* the position in the script of the k-th call of op, from position n on
CallsFrom(script, op, n) == CallsIn(script, op, n, Len(script))

\* coin k was derived from a transcript that holds the commitment of every
\* aux block ended before the alloc_random call, and of no other
CoinAfterCommits(commits, ends, randoms, k) ==
    Cardinality({b \in 1 .. Len(commits) : commits[b] <= coins[k].at})
       = Cardinality({b \in 1 .. Len(ends) : ends[b] < randoms[k]})

CommitmentsOf(pa, commits) ==
    /\ Len(commits) = Len(pa.pi_ds)
    /\ \A b \in 1 .. Len(pa.pi_ds) :
          /\ pa.aux_blocks[b] = AllocatedInBlock(pa, b)
          /\ pa.pi_ds[b] =
                FAdd(InnerProduct(pa.aux_blocks[b], params.ls[b]),
                     FMul(pa.kappa_3s[b],
                          params.vk.deltas_g1[Len(params.vk.deltas_g1)]))
          /\ pa.transcript.log[commits[b]].msg = to_uncompressed(pa.pi_ds[b])

\* C23: the b-th end_aux_block call emits D_b = sum_j aux_blocks[b][j] *
\* L_b[j] + kappa_3s[b] * delta_k * G1 with delta_k the last delta;
\* aux_blocks[b] is the aux values allocated since the previous end_aux_block
\* and is the opening create_proof returns; the uncompressed bytes of D_b are
\* in the transcript under aux_commit before any later coin is derived.
C23_AuxCommitment ==
    /\ CommitmentsOf(prover, PositionsFrom(prover.transcript.log, "aux_commit", 1))
    /\ result.status = "Ok" => result.openings = prover.aux_blocks
    /\ \A k \in 1 .. Len(coins) :
          CoinAfterCommits(PositionsFrom(prover.transcript.log, "aux_commit", 1),
                           CallsFrom(Script(circuit), "end_aux_block", 1),
                           CallsFrom(Script(circuit), "alloc_random", 1), k)

\* the three commitments of test_3blocks_2coins, blinded with non-zero
\* kappa_3s, and its two coins
C23_Witness ==
    /\ circuit.name = "Blocks3Coins2"
    /\ result.status = "Ok"
    /\ Len(result.proof.ds) = 3
    /\ result.openings = <<<<1, 1>>, <<1>>, <<1, 1>>>>
    /\ env.kappa_3s = <<1, 15, 5>>
    /\ Len(coins) = 2

(***************************************************************************)
(* The rows and the quotient                                               *)
(***************************************************************************)
\* synthesize has returned Ok and create_proof has gone on
AfterSynthesis ==
    phase \in {"msm", "returned", "verified"} /\ ip > Len(Script(circuit))

\* row is the row (x_i) * 0 = 0 evaluated on the assignment
IsPinningRow(pa, row, i) ==
    /\ pa.a[row] = pa.input_assignment[i]
    /\ pa.b[row] = 0
    /\ pa.c[row] = 0

\* the rows after the synth rows of synthesize are one pinning row per input
PinnedAfter(pa, synth) ==
    /\ Len(pa.a) = synth + Len(pa.input_assignment)
    /\ Len(pa.b) = Len(pa.a)
    /\ Len(pa.c) = Len(pa.a)
    /\ \A i \in 1 .. Len(pa.input_assignment) : IsPinningRow(pa, synth + i, i)

\* C24: after synthesis create_proof enforces exactly one pinning row
\* (x_i) * 0 = 0 per entry of input_assignment (the constant 1, the public
\* inputs, the coins), and the H MSM gets m - 1 coefficients of h, m the
\* smallest power of two >= rows of synthesis + inputs; for the XOR circuit
\* 3 + 2 rows, m = 8 and an H query of length 7.
C24_PinningRows ==
    /\ AfterSynthesis =>
          PinnedAfter(prover, Len(CallsFrom(Script(circuit), "enforce", 1)))
    /\ (AfterSynthesis /\ DOMAIN tasks # {}) =>
          Len(tasks.h.exponents) = NextPowerOfTwo(Len(prover.a)) - 1
    /\ (AfterSynthesis /\ DOMAIN tasks # {} /\ circuit.name = "XorDemo") =>
          /\ Len(prover.a) = 3 + 2
          /\ Len(tasks.h.exponents) = 7
          /\ Len(tasks.h.bases) = 7

\* the H MSM of the XOR circuit is started: five rows, seven coefficients
C24_Witness ==
    /\ circuit.name = "XorDemo"
    /\ phase = "msm"
    /\ Len(prover.a) = 5
    /\ Len(prover.input_assignment) = 2
    /\ Len(tasks.h.exponents) = 7
    /\ Len(params.h) = 7

(***************************************************************************)
(* The proof elements                                                      *)
(***************************************************************************)
\* the values at tau of the polynomials of query q of circuit c, one per
\* variable, zero ones included
QueryOfCircuit(c, tau, q) ==
    LET ka == KeypairAssembly(c)
    IN  QueryValues(ka, LagrangeValues(ka, from_coeffs(Zeros(Len(ka.rows))), tau),
                    Variables(ka), q)

\* the query over the full assignment: sum_i w_i * q_i(tau)
OverFullAssignment(pa, query) ==
    InnerProduct(pa.input_assignment \o pa.aux_assignment, query)

\* sum_{b<k} kappa_3s[b] * delta_b
KappaDeltas(vk, kappa_3s) ==
    SumSeq(Tup([b \in 1 .. Len(vk.deltas_g1) - 1 |->
                   FMul(kappa_3s[b], vk.deltas_g1[b])]))

\* G_A, G_B, G_C from A(w), B(w), the h and L_k contributions
ProofElements(vk, r, s, kappa_3s, Aw, Bw, h, Lk) ==
    LET delta_k == vk.deltas_g1[Len(vk.deltas_g1)]
        G_A == FAdd(FAdd(vk.alpha_g1, Aw), FMul(r, delta_k))
        G_B == FAdd(FAdd(vk.beta_g2, Bw), FMul(s, vk.deltas_g2[Len(vk.deltas_g2)]))
        G_B1 == FAdd(FAdd(vk.beta_g1, Bw), FMul(s, delta_k))
    IN  [a |-> G_A, b |-> G_B,
         c |-> FSub(FAdd(FAdd(FSub(FAdd(FMul(s, G_A), FMul(r, G_B1)),
                                   FMul(FMul(r, s), delta_k)),
                              h),
                         Lk),
                    KappaDeltas(vk, kappa_3s))]

\* a proof was returned under the parameters of the circuit, with one
\* kappa_3 per delta but the last
ProofOfHonestParams ==
    /\ result.status = "Ok" /\ HonestParams
    /\ Len(env.kappa_3s) = Len(params.vk.deltas_g1) - 1

\* C25: the proof create_proof returns has G_A = alpha + A(w) + r * delta_k,
\* G_B = beta + B(w) + s * delta_k in G2 and G_C = s * G_A + r * G_B1 -
\* r * s * delta_k + h + L_k(last aux block) - sum_{b<k} kappa_3s[b] *
\* delta_b, with A(w), B(w) the A and B queries over the full assignment and
\* only the L query of the last block in the main MSM.
C25_ProofElements ==
    ProofOfHonestParams =>
        /\ result.proof.ds = prover.pi_ds
        /\ [a |-> result.proof.a, b |-> result.proof.b, c |-> result.proof.c]
             = ProofElements(params.vk, env.r, env.s, env.kappa_3s,
                   OverFullAssignment(prover, QueryOfCircuit(circuit, origin.td.tau, 1)),
                   OverFullAssignment(prover, QueryOfCircuit(circuit, origin.td.tau, 2)),
                   InnerProduct(tasks.h.exponents, params.h),
                   InnerProduct(FinalBlock(prover),
                                params.ls[Len(prover.aux_block_indices) + 1]))

\* a proof of the circuit of three aux blocks, with non-zero r, s, kappa_3s
C25_Witness ==
    /\ ProofOfHonestParams
    /\ circuit.name = "Blocks3Coins2"
    /\ env.r = 27134 /\ env.s = 17146 /\ env.kappa_3s = <<1, 15, 5>>
    /\ Len(FinalBlock(prover)) = 7
    /\ result.proof.c # 0

(***************************************************************************)
(* Zero coefficients                                                       *)
(***************************************************************************)
\* the value of a variable in the assignment
ValueOf(pa, var) ==
    IF var.t = "Input" THEN pa.input_assignment[var.i + 1]
    ELSE pa.aux_assignment[var.i + 1]

\* the sum of coeff * value over the terms of lc with a non-zero coefficient
NonZeroSum(pa, lc) ==
    SumSeq(Tup([k \in 1 .. Len(lc) |->
                   IF lc[k].coeff = 0 THEN 0
                   ELSE FMul(lc[k].coeff, ValueOf(pa, lc[k].var))]))

\* lc has a term with a non-zero coefficient on var
NonZeroTermOn(lc, var) ==
    \E k \in 1 .. Len(lc) : lc[k].var = var /\ lc[k].coeff # 0

\* the rows of the enforce calls done are the sums over the non-zero terms
RowsAreNonZeroSums(pa, script, calls, done) ==
    \A r \in done :
        /\ pa.a[r] = NonZeroSum(pa, script[calls[r]].a)
        /\ pa.b[r] = NonZeroSum(pa, script[calls[r]].b)
        /\ pa.c[r] = NonZeroSum(pa, script[calls[r]].c)

\* tracker d has one bit per variable of kind t, set iff a term with a
\* non-zero coefficient on the variable was evaluated in query q (a or b)
DensityIs(d, count, t, script, calls, done, q) ==
    /\ Len(d.bv) = count
    /\ \A i \in 1 .. count :
          d.bv[i] <=> \E r \in done :
                         NonZeroTermOn(IF q = "a" THEN script[calls[r]].a
                                       ELSE script[calls[r]].b,
                                       [t |-> t, i |-> i - 1])
    /\ d.total_density = Cardinality({i \in 1 .. count : d.bv[i]})

DensitiesAreNonZeroTerms(pa, script, calls, done) ==
    /\ DensityIs(pa.b_input_density, Len(pa.input_assignment), "Input",
                 script, calls, done, "b")
    /\ DensityIs(pa.a_aux_density, Len(pa.aux_assignment), "Aux",
                 script, calls, done, "a")
    /\ DensityIs(pa.b_aux_density, Len(pa.aux_assignment), "Aux",
                 script, calls, done, "b")

EvalIgnoresZeros(pa, script, calls) ==
    /\ RowsAreNonZeroSums(pa, script, calls, {r \in 1 .. Len(calls) : calls[r] < ip})
    /\ DensitiesAreNonZeroTerms(pa, script, calls,
                                {r \in 1 .. Len(calls) : calls[r] < ip})

\* a circuit of zero_coeff_test
ZeroCoeffCircuit == circuit.name \in {"MultOneVar", "MultOtherVar"}

\* C26: eval ignores zero-coefficient terms: each row is the sum of coeff *
\* value over the non-zero-coefficient terms, and a density bit (B input, A
\* aux, B aux) is set iff a term with a non-zero coefficient on the variable
\* has been evaluated in that query; a zero-coefficient term on the constant
\* 1 or on another variable sets no bit, and prove then verify succeeds for
\* the circuits with such a term.
C26_ZeroCoefficients ==
    /\ \E script \in {Script(circuit)} :
          \E calls \in {CallsFrom(script, "enforce", 1)} :
             EvalIgnoresZeros(prover, script, calls)
    /\ (ZeroCoeffCircuit /\ SynthesizedAndReturned /\ HonestParams /\ ConstraintsHold)
          => result.status = "Ok"
    /\ (ZeroCoeffCircuit /\ HonestlyVerified /\ ConstraintsHold) => vres = "Ok"

\* the proof of a * b = c with the term 0 * a in B is accepted: the bit of a
\* in the B aux density is not set, that of b is
C26_Witness ==
    /\ circuit.name = "MultOtherVar"
    /\ HonestlyVerified /\ ConstraintsHold
    /\ vres = "Ok"
    /\ prover.b_aux_density.bv = <<FALSE, TRUE, FALSE>>
    /\ prover.b_input_density.bv = <<FALSE>>
    /\ prover.a_aux_density.bv = <<TRUE, FALSE, FALSE>>

(***************************************************************************)
(* The accumulators of key_gen                                             *)
(***************************************************************************)
\* the sum over the stored entries (i, j, v) of column j of k_i * v
ColumnSum(m, k, j) ==
    SumSeq(Tup([e \in 1 .. Len(m.nonzero_entries) |->
                   IF m.nonzero_entries[e][2] = j
                   THEN FMul(At(k, m.nonzero_entries[e][1]), m.nonzero_entries[e][3])
                   ELSE 0]))

\* task t is between the read and the write of an accumulator
InReadModifyWrite(kg, t) ==
    kg.pos[t] <= Len(kg.chunks[t]) /\ kg.pc[t] \in {"read", "write"}

\* every task in a read-modify-write holds the mutex of its column
HoldsColumnMutex(m, kg) ==
    \A t \in 1 .. Len(kg.chunks) :
        InReadModifyWrite(kg, t) => At(kg.locks, KeyGenEntry(m, kg, t)[2]) = t

\* C27: for every interleaving of the tasks key_gen spawns, P_j is the sum
\* over all stored entries (i, j, v) of k_i * v, duplicates at the same (row,
\* col) summed; no update is lost: every read-modify-write of column j is
\* done holding the mutex of column j, and there is one mutex per witness
\* column.
C27_NoLostUpdate ==
    /\ kw_phase = "keygen" =>
          /\ Len(keygen.locks) = matrix.num_wits
          /\ Len(keygen.p_g1) = matrix.num_wits
          /\ HoldsColumnMutex(matrix, keygen)
    /\ kw_phase \in {"keys", "proved", "verified"} =>
          /\ Len(keys.pk.p_g1) = matrix.num_wits
          /\ \A j \in 1 .. matrix.num_wits :
                keys.pk.p_g1[j] = ColumnSum(matrix, keygen.k, j - 1)

\* two tasks have each added one of two entries at the same row and column
C27_Witness ==
    /\ kw_phase = "keys"
    /\ Len(keygen.chunks) = 2
    /\ Len(matrix.nonzero_entries) = 2
    /\ matrix.nonzero_entries[1] = matrix.nonzero_entries[2]
    /\ keys.pk.p_g1[matrix.nonzero_entries[1][2] + 1]
          = FMul(2, FMul(At(keygen.k, matrix.nonzero_entries[1][1]),
                         matrix.nonzero_entries[1][3]))
    /\ keys.pk.p_g1[matrix.nonzero_entries[1][2] + 1] # identity

(***************************************************************************)
(* The tasks of parallel_fft                                               *)
(***************************************************************************)
\* task t had finished, and its scope had returned, before task u was
\* spawned
HappensBefore(t, u) == t[1] = 1 /\ u[1] = 2 /\ t[2] \in par.joined

\* two accesses of one location by two tasks, one of them a write, that
\* nothing orders
Races(w, x) ==
    /\ w[2] = x[2]
    /\ w[1] # x[1]
    /\ ~HappensBefore(w[1], x[1])
    /\ ~HappensBefore(x[1], w[1])

\* C28: parallel_fft is race-free in every interleaving: a task of the first
\* phase writes only its own row tmp[j] and a is only read; the second phase
\* reads tmp only after every task of the first has finished (the scope
\* joins before it returns); the tasks of the second phase write disjoint
\* chunks of a.
C28_ParallelFftRaceFree ==
    /\ \A w \in par.writes : \A x \in par.reads \cup par.writes : ~Races(w, x)
    /\ \A w \in par.writes :
          w[1][1] = 1 => (w[2][1] = "tmp" /\ w[2][2] = w[1][2])
    /\ par.scope = "first" => par.a = par.a0
    /\ \A x \in par.reads :
          (x[1][1] = 2 /\ x[2][1] = "tmp") =>
              \A j \in 0 .. 2 ^ par.log_cpus - 1 : j \in par.joined
    /\ \A w \in par.writes : \A x \in par.writes :
          (w[1][1] = 2 /\ x[1][1] = 2 /\ w[1] # x[1]) => w[2] # x[2]
    /\ par.scope = "done" =>
          par.a = parallel_fft(par.a0, par.omega, par.log_n, par.log_cpus)

\* a call on four elements and two threads has returned: two tasks filled
\* tmp, two others each copied a chunk of two elements
C28_Witness ==
    /\ par.scope = "done"
    /\ par.log_n = 2 /\ par.log_cpus = 1
    /\ par.a0 = <<0, 1, 0, 0>>
    /\ par.a # par.a0
    /\ {w[1] : w \in par.writes} = {<<1, 0>>, <<1, 1>>, <<2, 0>>, <<2, 1>>}
    /\ {w[2] : w \in {x \in par.writes : x[1] = <<2, 1>>}}
          = {<<"a", 0, 2>>, <<"a", 0, 3>>}

(***************************************************************************)
(* The size of a domain                                                    *)
(***************************************************************************)
\* from_coeffs has returned a domain
IsDomain(d) == d # NoDomain /\ d.err = "none"

\* C30 as stated: for every domain from_coeffs returns, len() is the domain
\* size m = 2^exp, the number of stored coefficients, also after fft, ifft,
\* coset_fft and icoset_fft.
C30_LenIsDomainSize ==
    IsDomain(dom_a) =>
        /\ len(dom_a) = 2 ^ dom_a.exp
        /\ len(dom_a) = Len(dom_a.coeffs)

(***************************************************************************)
(* Declared and ended aux blocks                                           *)
(***************************************************************************)
\* C29: create_proof returns Ok(proof) only if the number of end_aux_block
\* calls made by synthesize equals kappa_3s.len() (= num_aux_blocks()): a
\* circuit that ends more or fewer blocks than it declares never gets a proof.
C29_ProofOnlyIfBlocksDeclared ==
    result.status = "Ok" =>
        /\ Len(prover.aux_block_indices) = Len(env.kappa_3s)
        /\ Len(env.kappa_3s) = num_aux_blocks(circuit)
        /\ EndedAuxBlocks(circuit) = num_aux_blocks(circuit)

====
